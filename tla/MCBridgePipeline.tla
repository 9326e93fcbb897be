--------------------------- MODULE MCBridgePipeline --------------------------
(* BridgePipeline for TLC: a few songs and instructions. *)
EXTENDS BridgePipeline

\* A long song, a shorter one, and one whose artwork cannot be decoded and whose
\* duration no int holds.
MCSongs == {[title |-> "a", artist |-> "a", duration |-> 300, art |-> "artA"],
            [title |-> "b", artist |-> "b", duration |-> 200, art |-> "artB"],
            [title |-> "c", artist |-> "b", duration |-> 3900, art |-> "none"]}

\* Both sides of the change from metres to kilometres, a distance no int holds, and
\* the end of guidance.
MCTbts == {[icon |-> 2, distance |-> 1000, currentRoad |-> "a", nextRoad |-> "b"],
           [icon |-> 3, distance |-> 999, currentRoad |-> "b", nextRoad |-> "c"],
           [icon |-> 3, distance |-> 3000, currentRoad |-> "b", nextRoad |-> "b"],
           [icon |-> 0, distance |-> 0, currentRoad |-> "c", nextRoad |-> "c"]}

MCProgresses == {0, 10000}

\* Ties go down, as they do for 1050.
MCTenths(metres) == (metres + 49) \div 100
==============================================================================
