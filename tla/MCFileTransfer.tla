-------------------------- MODULE MCFileTransfer --------------------------
(* Small copies of FileTransfer for TLC. *)
EXTENDS FileTransfer

Copy(m1, n1, m2, n2, d2) ==
  [mode |-> [t \in Transfers |-> IF t = "t1" THEN m1 ELSE m2],
   size |-> [t \in Transfers |-> IF t = "t1" THEN n1 ELSE n2],
   dst |-> [t \in Transfers |-> IF t = "t1" THEN "f" ELSE d2],
   old |-> [d \in Dsts |-> IF d = "f" THEN 3 ELSE 0],
   writable |-> TRUE, full |-> FALSE, kill |-> FALSE, drop |-> FALSE]

Alone(m, n) == Copy(m, n, "none", 0, "g")

Failing == {
  [Alone("par", 2) EXCEPT !.writable = FALSE], [Alone("scp", 2) EXCEPT !.writable = FALSE],
  [Alone("rsync", 3) EXCEPT !.writable = FALSE],
  [Alone("par", 3) EXCEPT !.full = TRUE], [Alone("scp", 2) EXCEPT !.full = TRUE],
  [Alone("scp", 3) EXCEPT !.drop = TRUE], [Alone("par", 2) EXCEPT !.drop = TRUE],
  [Copy("scp", 3, "scp", 2, "f") EXCEPT !.kill = TRUE],
  [Copy("par", 2, "par", 2, "f") EXCEPT !.kill = TRUE]}

Working == {
  Alone("scp", 0), Alone("scp", 4), Alone("rsync", 2), Alone("rsync", 4),
  Alone("par", 1), Alone("par", 4),
  Copy("scp", 3, "scp", 2, "g"), Copy("scp", 2, "rsync", 2, "g"),
  Copy("scp", 2, "scp", 1, "f"), Copy("par", 2, "scp", 1, "g")}

Copies == Working \cup Failing

Parallel == {Alone("par", 6)}
=============================================================================
