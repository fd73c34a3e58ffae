---------------------------- MODULE MCTurnGuards ----------------------------
(* Instances of TurnGuards for TLC: the thresholds are those of the code. *)
EXTENDS TurnGuards, TLC

CONSTANTS talk, call, call2, quiet, odd

AllContents == {talk, call, call2, quiet, odd}
Kind == [c \in AllContents |->
           CASE c = talk -> "text" [] c \in {call, call2} -> "tool"
             [] c = quiet -> "empty" [] c = odd -> "markup"]

(* Cycles of up to Window \div Threshold = 4 answers, in which no two      *)
(* neighbours are equal texts, and a model that says nothing at all.       *)
Loops == {<<call>>, <<call2>>, <<quiet>>, <<call, talk>>, <<call, call2>>,
          <<call, call, talk>>, <<call, call2, talk>>, <<call, call2, call, talk>>,
          <<call2, talk, call, talk>>}

(* Equal texts. *)
TalkLoops == {<<talk>>, <<talk, quiet>>}

AllLoops == Loops \cup TalkLoops \cup {<<odd>>, <<talk, odd, quiet>>, <<call, quiet>>}
=============================================================================
