----------------------------- MODULE MCWorkspace -----------------------------
EXTENDS Workspace

File(mode, c) == [kind |-> "file", mode |-> mode, data |-> c, stamp |-> 0, present |-> TRUE]
Dir(mode) == [kind |-> "dir", mode |-> mode, data |-> <<>>, stamp |-> 0, present |-> TRUE]
Link(to) == [kind |-> "link", mode |-> "rwx", data |-> to, stamp |-> 0, present |-> TRUE]
Fifo == [kind |-> "fifo", mode |-> "rw", data |-> <<>>, stamp |-> 0, present |-> TRUE]

\* "d.x" sorts before "d/f" as text, and after it in the walk.
MCSorted == << <<".epoch">>, <<"d">>, <<"d.x">>, <<"d", "f">>, <<"d", "l">>, <<"s">> >>
At(p, e) == [q \in {p} |-> e]
MCSources ==
    { At(<<"d">>, Dir("r")) @@ At(<<"d.x">>, File("suid", <<1, 2>>))
        @@ At(<<"d", "f">>, File("rw", <<2>>)) @@ At(<<"d", "l">>, Link(<<"..", "d.x">>))
        @@ At(<<".epoch">>, File("rw", <<1>>)) @@ At(<<"s">>, Dir("rwx")),
      At(<<"d", "l">>, Link(<<"..", "..", "d">>)) @@ At(<<"d">>, Dir("rwx")),
      At(<<"d">>, Fifo), At(<<"s">>, Dir("rwx")) }
MCBlobRoot == <<"s">>
MCContents == {<<2, 1>>, <<1, 1, 2>>}

Man(schema, canonical, entries) ==
    [schema |-> schema, root |-> "rwx", canonical |-> canonical, entries |-> entries]
MCForeign == { Man(2, TRUE, <<>>), Man(1, FALSE, <<>>), Man(1, TRUE, <<>>),
               Man(1, TRUE, <<Entry(<<"d", "f">>, "file", "rw", <<2>>)>>) }
=============================================================================
