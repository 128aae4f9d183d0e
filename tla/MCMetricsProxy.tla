--------------------------- MODULE MCMetricsProxy ---------------------------
EXTENDS MetricsProxy

\* Two status values that differ in both fields.
S(sw, rs) == [swap |-> sw, rss |-> rs]
TwoSamples == {S(1, 1), S(2, 2)}

\* Dashboard queries: one panel per flag, and one panel with all flags.
SingleFlags == {{"tsLow"}, {"pfHigh", "pfLow"}}
AllFlags == {{"tsHigh", "tsLow", "zram", "pfHigh", "pfLow"}}
LowFlags == {{"tsLow"}}
PfFlags == {{"pfLow"}}
SingleFlagsAll == SingleFlags \cup AllFlags
ZramFlags == {{"zram"}}

\* mm_stat before anything is swapped out, and after: orig, comp, used.
Z(o, c, u) == [orig |-> o, comp |-> c, used |-> u]
ZramLines == {Z(0, 0, 0), Z(4, 1, 2)}
=============================================================================
