------------------------------- MODULE MCStride ------------------------------
EXTENDS Stride, TLC

MCOnlines == {{1}, {1, 2}}
=============================================================================
