------------------------------ MODULE MCElements ------------------------------
(* An instance of Elements.                                                   *)
EXTENDS Elements, TLC

\* Two medias, and another path of the first one.
MCNormalizePath == "m/1" :> "m/1" @@ "m//1" :> "m/1" @@ "m/2" :> "m/2"

\* One type or none, any overlays of the first media, and the second one without a
\* clip or with an overlay that stays at EOS; or the first media, or both, with
\* an overlay under the other path, which one state gives besides the first.
MCFullStates ==
  LET Given(has, clear) == [has |-> has, clear |-> clear]
      absent == [has |-> {}, clear |-> FALSE, deleted |-> TRUE]
      stays == Given({"x"}, FALSE)
      Clips(c1, other, c2) == "m/1" :> c1 @@ "m//1" :> other @@ "m/2" :> c2
      osds == {Clips(c1, absent, c2) : c1 \in {absent} \cup [has : SUBSET {"x"}, clear : BOOLEAN],
                                       c2 \in {absent, stays}}
              \cup {Clips(absent, Given({"x"}, TRUE), c2) : c2 \in {absent, stays}}
              \cup {Clips(stays, Given({"x"}, TRUE), absent)}
  IN  [types : [{"x"} -> {"none", "y1"}], osds : osds]

MCConfigurations == {{}, {{1}}}

\* A file and its directory.
MCAbove == [m \in {"dir", "file"} |-> IF m = "file" THEN {"dir", "file"} ELSE {"dir"}]

\* Four states that a user may write: a media; one that lasts for a limited
\* time or two ends of its media; one without a media; one that tags end.
Written(media, eos, tag, limited, to) ==
  [media |-> media, actions |-> [k \in {"eos", "tag"} |-> IF k = "eos" THEN eos ELSE tag],
   limited |-> limited, timeoutTo |-> to]
To(name, num) == [to |-> name, num |-> num]
NoAction == To("none", 1)
MCLogicStates ==
  {Written(TRUE, NoAction, NoAction, FALSE, "none"),
   Written(TRUE, To("a", 2), NoAction, TRUE, "none"),
   Written(FALSE, NoAction, To("b", 2), TRUE, "a"),
   Written(TRUE, To("b", 1), To("b", 1), FALSE, "none")}
=============================================================================
