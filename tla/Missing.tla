------------------------------- MODULE Missing -------------------------------
(***************************************************************************)
(* What the batch programs have in place of a value.                       *)
(***************************************************************************)
CONSTANTS
  None,           \* nothing: Python's None, a null of Spark, no file
  NaN             \* a float that is not a number, and compares with none

===============================================================================
