-------------------------------- MODULE Rows --------------------------------
(***************************************************************************)
(* What takes the place of a database row.                                 *)
(***************************************************************************)
CONSTANTS
  None,  \* no row, and no value
  Gone   \* a row that was deleted: an id is not used again

ASSUME RowsAssumption == None # Gone
=============================================================================
