--------------------------- MODULE MCSessionCodec ---------------------------
(***************************************************************************)
(* Instances of SessionCodec: two downloads of every kind or three of a    *)
(* few, where a session holds two; a limit of two options per layer and of *)
(* two items per option, and layers that reach the limits.                 *)
(***************************************************************************)
EXTENDS SessionCodec, TLC

MCGid == <<"g1", "g2", "g3">>

MCKey == <<"dir", GID, EXPLICIT, FINALIZED, SIZE, "header", "out", PAUSE, SAVE, "split">>

\* The large torrent has a web seed of its own, and is too large for the options
\* of one of the layers.
MCLink ==
  "magnet" :> [size |-> 0, seeds |-> {}] @@ "small" :> [size |-> 1, seeds |-> {}] @@
  "large" :> [size |-> 2, seeds |-> {"w"}]

Full == "out" :> <<"x">> @@ "header" :> <<"x", "y">>

MCLayers ==
  {[base |-> Full, overlay |-> "split" :> <<"x">> @@ "dir" :> <<"y">> @@ PAUSE :> <<"y">>],
   [base |-> Full, overlay |-> "out" :> <<"y">> @@ "header" :> <<>>],
   [base |-> "out" :> <<"x">> @@ SAVE :> <<"x">>,
    overlay |-> "header" :> <<"y", "x">> @@ SIZE :> <<1>> @@ GID :> <<"g1">> @@ PAUSE :> <<"x">>]}

MCCrowd ==
  [kind : {"uri"}, uris : {<<"u">>}, base : {Full}, overlay : {"out" :> <<"y">> @@ "header" :> <<>>},
   status : {"active", "waiting", "complete"}, finalized : {{}}]
=============================================================================
