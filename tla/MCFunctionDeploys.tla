-------------------------- MODULE MCFunctionDeploys --------------------------
EXTENDS FunctionDeploys

CONSTANTS f1, d1, d2, d3, i1, i2, b1, b2, bad, k1
=============================================================================
