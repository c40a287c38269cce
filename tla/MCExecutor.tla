------------------------------ MODULE MCExecutor ------------------------------
(* Two steps up that are one too many together, a descent by a negative      *)
(* distance, a climb by nan, an emergency, an arm and a text that is no      *)
(* command.                                                                  *)
EXTENDS Executor

Text(w, a) == [word |-> w, args |-> a, bad |-> FALSE, nan |-> FALSE]

MCTexts == {Text("go", <<0, 0, 1, 1>>), Text("down", <<-2>>), Text("emergency", <<>>),
            [Text("up", <<1>>) EXCEPT !.nan = TRUE], Text("arm", <<>>), Text("up", <<>>)}
=============================================================================
