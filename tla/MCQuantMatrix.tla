------------------------------ MODULE MCQuantMatrix -----------------------------
EXTENDS QuantMatrix

\* Two of the five generated models.
TwoModels == <<"Q8_0", "Q4_0">>
================================================================================
