------------------------------ MODULE MCCaptureMatrix ---------------------------
EXTENDS CaptureMatrix

\* One pair of each mode; the four pairs of the script repeat them for Q8_0.
TwoPairs == << [cfg |-> "Q4_0", mode |-> "CPU"], [cfg |-> "Q4_0", mode |-> "HTP0"] >>
================================================================================
