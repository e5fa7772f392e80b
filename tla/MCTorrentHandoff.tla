-------------------------- MODULE MCTorrentHandoff --------------------------
(***************************************************************************)
(* Instances of TorrentHandoff: two files of different lengths.            *)
(***************************************************************************)
EXTENDS TorrentHandoff, TLC

CONSTANTS f1, f2

TwoFiles   == {f1, f2}
TwoLengths == f1 :> 1 @@ f2 :> 2

Setup(handler, magnet, discard, fail, n) ==
  [handler |-> handler, magnet |-> magnet, discard |-> discard, fail |-> fail, crashes |-> n]

\* A handler that may do anything, in a process that does not crash; one that
\* only ever releases, in a process that does; and no handler.
MCSetups == {Setup(TRUE, FALSE, TRUE, TRUE, 0), Setup(TRUE, TRUE, FALSE, TRUE, 1), Setup(FALSE, TRUE, FALSE, TRUE, 1)}

FailingHandler  == {Setup(TRUE, FALSE, FALSE, TRUE, 0)}
DiscardAndCrash == {Setup(TRUE, FALSE, TRUE, FALSE, 1)}
=============================================================================
