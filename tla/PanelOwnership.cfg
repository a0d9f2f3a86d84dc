CONSTANTS Entries = {n1, n2, n3, sem}
          Native = {n1, n2, n3}
          NoEntry = NoEntry
SPECIFICATION Spec
INVARIANT TypeOK
INVARIANT OwnerHasPanel
