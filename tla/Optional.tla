------------------------------ MODULE Optional ------------------------------
\* What an Option of the code holds when it holds nothing.
CONSTANT None
=============================================================================
