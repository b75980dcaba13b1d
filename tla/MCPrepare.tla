----------------------------- MODULE MCPrepare -----------------------------
EXTENDS Prepare

Made(name, table, spec, qwen4, qsa, indexer, misfits) ==
  [name |-> name, table |-> table, spec |-> spec, misfits |-> misfits,
   marks |-> [qwen4 |-> qwen4, qsa |-> qsa, indexer |-> indexer]]

\* The old pin: a pinned table, no table module, SDPA in the way, the GDN fold and ring.
\* The squashed branch: the native file backend and KDA's route bundled, and KDA's branch
\* beside GDN's. Today's: upstream's varlen and clamp, one compact branch. A later one: the
\* selection diff does not apply any more, nor does the compatibility of the table's name.
MCImages == {
  Made("old", FALSE, <<"gdn", "return", "other", "gdn", "other", "return">>,
       {"pinned"}, {"sdpa"}, {}, {}),
  Made("squashed", TRUE, <<"kda", "return", "gdn", "return", "other">>,
       {"native"}, {"bundled"}, {}, {}),
  Made("main", TRUE, <<"other", "gdn", "other", "return", "kda", "other", "return">>,
       {"native"}, {"varlen"}, {"clamp"}, {}),
  Made("later", TRUE, <<"gdn", "other", "return">>,
       {"native"}, {"varlen"}, {"clamp"}, {<<"selection", "qsa">>, <<"compat", "table">>})}
=============================================================================
