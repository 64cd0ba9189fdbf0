------------------------------ MODULE Approvals ------------------------------
(***************************************************************************)
(* What the approvals of the plugin promise, whoever registers them and      *)
(* however replies reach them: a place where a request waits belongs to one  *)
(* request at a time; a text written there is taken by the request that      *)
(* waits at that moment, or by none when none waits; a request ends once,    *)
(* denied or with a text it took.  Approver and Receiver implement this.     *)
(***************************************************************************)
CONSTANTS Requests, Texts,
          Places,    \* where a request can wait
          PlacesOf,  \* the places a request may wait at
          Heard,     \* the places at which a text is heard
          None,      \* no request, no verdict, a text not considered yet
          Denied,    \* the verdict without a text
          Passed     \* a text that went on, to the agent or nowhere

VARIABLES holder,   \* the request that waits at each place
          verdict,  \* how each request has ended
          taken     \* the request that took each text

avars == <<holder, verdict, taken>>

AInit == /\ holder = [p \in Places |-> None]
         /\ verdict = [r \in Requests |-> None]
         /\ taken = [t \in Texts |-> None]

Waits(r) == \E p \in Places : holder[p] = r

Open(r, p) == /\ verdict[r] = None /\ ~Waits(r)
              /\ holder[p] = None
              /\ holder' = [holder EXCEPT ![p] = r]
              /\ UNCHANGED <<verdict, taken>>

\* The place is held, or no bot or approver is found.
Refuse(r) == /\ verdict[r] = None /\ ~Waits(r)
             /\ verdict' = [verdict EXCEPT ![r] = Denied]
             /\ UNCHANGED <<holder, taken>>

Take(t, p) == /\ taken[t] = None
              /\ holder[p] # None
              /\ taken' = [taken EXCEPT ![t] = holder[p]]
              /\ UNCHANGED <<holder, verdict>>

Pass(t) == /\ taken[t] = None
           /\ \A p \in Heard[t] : holder[p] = None
           /\ taken' = [taken EXCEPT ![t] = Passed]
           /\ UNCHANGED <<holder, verdict>>

Close(r, p, v) == /\ holder[p] = r
                  /\ v = Denied \/ taken[v] = r
                  /\ holder' = [holder EXCEPT ![p] = None]
                  /\ verdict' = [verdict EXCEPT ![r] = v]
                  /\ UNCHANGED taken

ANext == \/ \E r \in Requests : \/ \E p \in PlacesOf[r] : Open(r, p)
                                \/ Refuse(r)
                                \/ \E p \in PlacesOf[r], v \in Texts \cup {Denied} : Close(r, p, v)
         \/ \E t \in Texts : Pass(t) \/ \E p \in Heard[t] : Take(t, p)

ASpec == AInit /\ [][ANext]_avars
=============================================================================
