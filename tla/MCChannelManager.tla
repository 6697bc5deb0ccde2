------------------------- MODULE MCChannelManager -------------------------
(* Instances of ChannelManager for TLC.                                    *)
EXTENDS ChannelManager

CONSTANTS s1, s2, s3, c1, c2, c3

Sync(g, f) == [gw |-> g, type |-> "sync", fgc |-> f]
Terminal(g, f) == [gw |-> g, type |-> "terminal", fgc |-> f]

MCSharedTypes == {"sync", "async"}
MCSessions == {s1, s2, s3}
\* One channel per thread.
MCChannels == {c1, c2, c3}

\* Two fgcs of one gateway, one of them addressed through an unshared type too,
\* as the reference-count tests of test_channel_manager.py do, and two fgcs of
\* another, of which one is disconnected again at will.
MCRepeated == {Sync("gw2", "f4")}
MCTargets == {Sync("gw1", "f1"), Sync("gw1", "f2"), Terminal("gw1", "f1"),
              Sync("gw2", "f3")} \cup MCRepeated
===========================================================================
