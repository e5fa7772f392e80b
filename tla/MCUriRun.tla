------------------------------ MODULE MCUriRun ------------------------------
(***************************************************************************)
(* Instances of UriRun: a resource of two blocks, up to two runs of the    *)
(* download, and the sets of options each question needs.                  *)
(***************************************************************************)
EXTENDS UriRun

MCExisting == {NoFile, <<1>>, Right}

Option(split, continue, out, conditional, tries) ==
  [split |-> split, many |-> split, continue |-> continue, out |-> out, conditional |-> conditional,
   gzip |-> FALSE, dryRun |-> FALSE, overwrite |-> FALSE, rename |-> TRUE, tries |-> tries]

\* One connection, more than one, and nothing else that matters.
SplitOrNot == {Option(s, TRUE, TRUE, FALSE, n) : s \in BOOLEAN, n \in Tries}

Conditional == {Option(s, FALSE, out, TRUE, n) : s, out \in BOOLEAN, n \in Tries}

\* The options that stand apart from the choice of the strategy.
Apart(p) ==
  {f \in {"conditional", "gzip", "dryRun", "overwrite"} : p[f]} \cup (IF p.rename THEN {} ELSE {"rename"})

\* Every combination of the options that choose the strategy and the file, with
\* at most one that stands apart and two tries; and, with any number of tries,
\* one connection and more than one.
AllOptions ==
  SplitOrNot \cup
  {p \in OptionSet : (p.many => p.split) /\ Cardinality(Apart(p)) <= 1 /\ p.tries = 2}

Fresh == {NoFile}
=============================================================================
