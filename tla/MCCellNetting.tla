---------------------------- MODULE MCCellNetting ----------------------------
EXTENDS CellNetting
MCBudgets == {-1, 1}
=============================================================================
