----------------------------- MODULE MCBillDesk -----------------------------
EXTENDS BillDesk
CONSTANT none
=============================================================================
