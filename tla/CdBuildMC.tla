------------------------------ MODULE CdBuildMC ------------------------------
(* Instances of CdBuild for TLC. *)
EXTENDS CdBuild

V(upstream, debian, ubuntu) ==
  [epoch |-> NoNumber, upstream |-> upstream, debian |-> debian, ubuntu |-> ubuntu]

\* -2 is a point.
One    == V(<<1>>, <<0>>, 1)
Twenty == V(<<0, -2, 20>>, <<0>>, 1)
OneTwo == V(<<1, -2, 2>>, <<0>>, 1)
OneTen == V(<<1, -2, 10>>, <<0>>, 1)
Later  == V(<<1, -2, 10>>, <<0>>, 2)

Dep(name, relation, version) == [name |-> name, relation |-> relation, version |-> version]
AnyVersion(name) == Dep(name, "any", One)

Pkg(name, version, depends) ==
  [name |-> name, version |-> version, line |-> depends # {}, depends |-> depends]

\* What is on the CD.  play needs one of two codecs that it has not; ugly a newer gst
\* than the CD's, newer even than the first one in the archive, and what nobody has;
\* lib has an epoch.
libc == Pkg("libc", OneTwo, {})
gst  == Pkg("gst", Twenty, {<<AnyVersion("libc")>>})
lib  == Pkg("lib", [One EXCEPT !.epoch = 1], {})
play == Pkg("play", One, {<<AnyVersion("codec"), AnyVersion("mad")>>, <<Dep("libc", ">=", One)>>})
ugly == Pkg("ugly", One, {<<Dep("gst", ">=", OneTen)>>, <<Dep("gst", ">>", OneTen)>>,
                          <<AnyVersion("nowhere")>>})

\* bad lacks one of two codecs as well; old asks for a lib without an epoch.
bad   == Pkg("bad", One, {<<Dep("gst", ">=", OneTen)>>,
                          <<AnyVersion("codec"), AnyVersion("mad")>>})
old   == Pkg("old", One, {<<Dep("lib", ">=", One)>>})
\* The ubuntu revision of hal is not a number, and new needs a certain one.
hal   == Pkg("hal", [One EXCEPT !.ubuntu = NotANumber], {})
new   == Pkg("new", One, {<<Dep("hal", ">=", One)>>})
gst10 == Pkg("gst", OneTen, {<<Dep("libc", ">=", OneTwo)>>})
gst11 == Pkg("gst", Later, {<<AnyVersion("libc")>>})
mad   == Pkg("mad", One, {<<AnyVersion("libc")>>})

MCLocal    == <<<<libc, gst>>, <<play, ugly, lib, hal>>>>
MCRemote   == <<<<bad, old, new, gst10>>, <<gst11, mad>>>>
MCRequests == {<<"bad">>, <<"gst", "mad">>, <<"ugly">>, <<"play">>, <<"old">>, <<"new">>, <<"libc">>,
               <<"gone">>}
MCSymmetry == Permutations(Seeds)
=============================================================================
