---------------------------- MODULE DwipeMethodMC ----------------------------
(* Instances of DwipeMethod for TLC. *)
EXTENDS DwipeMethod

\* An excerpt of the Gutmann list: a stream, a pattern whose length does not divide
\* the block size, and another, so that the shuffle has used elements to skip.
MCBook == <<Stream, Static(<<0, 1, 1>>), Static(<<1>>)>>

Opts(methods, verifies, roundses, prngs) ==
  [method : methods, verify : verifies, rounds : roundses, prng : prngs]

Verifies == {"none", "last", "all"}

\* Every method whose patterns are defined, with the PRNG that works.
MCSound ==
  Opts({"zero", "random", "dodshort", "gutmann"}, Verifies, {1, 2}, {"twister"})
    \union Opts({"ops2"}, Verifies, {1, 2}, {"twister"})
    \union Opts({"dod522022m"}, {"last"}, {1}, {"twister"})

MCOps2  == Opts({"ops2"}, {"none"}, {2}, {"twister"})
MCShort == Opts({"zero", "random"}, {"none", "all"}, {1}, {"twister"})
MCIsaac == Opts({"random"}, {"last", "none"}, {1}, {"isaac"})
=============================================================================
