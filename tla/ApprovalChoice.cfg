\* Every text against a single tool and batches up to ten.
SPECIFICATION ChoiceSpec
CONSTANTS
  Sizes = {1, 2, 3, 4, 8, 9, 10}
  Lists <- Written
INVARIANTS GrantsWhatIsNamed
\* One response ends the call.
CHECK_DEADLOCK FALSE
