----------------------------- MODULE MCRunViews -----------------------------
EXTENDS RunViews
=============================================================================
