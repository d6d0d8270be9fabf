--------------------------- MODULE MCBlockDecoding ---------------------------
(***************************************************************************)
(* Every sequence of up to three actions, as a block of its own; and blocks*)
(* of several chunks and transactions between an account with two          *)
(* addresses, one with a single address, and somebody else's address.      *)
(***************************************************************************)
EXTENDS BlockDecoding, SequencesExt, TLC

Accounts == "a1" :> "A" @@ "a2" :> "A" @@ "b1" :> "B" @@ "x" :> "none"

Other(kind) == [kind |-> kind, deposit |-> 0]
Pay(d)      == [kind |-> "transfer", deposit |-> d]

SomeActions == {Other("string"), Other("malformed"), Other("other"),
                Pay(0), Pay(5), Pay(8), Pay(Garbled), Pay(NoString)}

Send(from, to, actions) == [from |-> from, to |-> to, actions |-> actions]

ActionBlocks == {<< <<Send("a1", "b1", as)>> >> : as \in BoundedSeq(SomeActions, 3)}

\* Up to two transactions in one chunk or in two, an empty chunk before them or
\* after them.
Sends   == {Send(from, to, <<Pay(5)>>) : from \in {"a1", "x"}, to \in {"a1", "a2", "b1", "x"}}
             \cup {Send("a1", "b1", <<>>), Send("b1", "a2", <<Pay(Garbled)>>)}
Singles == {<<s>> : s \in Sends}
Pairs   == {<<s, Send("b1", "a2", <<Pay(1)>>)>> : s \in Sends}
             \cup {<<Send("a1", "b1", <<Pay(5)>>), Send("b1", "a2", <<Other("other")>>)>>}
Later   == {<<>>, <<Send("a2", "b1", <<Pay(6)>>)>>}

SomeBlocks == ActionBlocks \cup {<<>>, << <<>> >>}
                \cup {<<x, y>> : x \in Singles, y \in Later} \cup {<< <<>>, x>> : x \in Pairs}
=============================================================================
