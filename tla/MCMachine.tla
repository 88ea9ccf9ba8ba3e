----------------------------- MODULE MCMachine -----------------------------
(***************************************************************************)
(* Command names as the pieces in which they share letters, and the lines  *)
(* that are typed: every command that decides something, with arguments on *)
(* both sides of each of its tests.                                        *)
(***************************************************************************)
EXTENDS Machine

MCOutputs == {<<"TAB", ">">>}
MCScenario == <<<<2, "a">>, <<5, "b">>, <<4, "c">>>>

MCNumbers == ("1" :> 1) @@ ("2" :> 2) @@ ("3" :> 3) @@ ("5" :> 5) @@ ("101" :> 101) @@ ("-1" :> -1)
MCWord(n) == [text |-> n, number |-> IF n \in DOMAIN MCNumbers THEN MCNumbers[n] ELSE 0]
MCAnswers == {MCWord("0"), MCWord("3")}

MCNoArguments ==
  {"fifo", "clock", "modifiedclock", "rep?", "uhfirstfit", "uhworstfit", "uhbestfit",
   "uhnextfit", "uheap?", "khcontalloc", "khfirstfit", "khbestfit", "khnextfit", "khworstfit",
   "kheap?", "tstkfree", "tstkrealloc", "tstkexpand", "ikb", "asp", "help"}
MCArguments ==
  {"lru", "nclock", "load", "schedMLFQ", "tstkmalloc", "tstkheap", "tstlsts", "tstchunks", "tstpg"}
MCPieces ==
  [run |-> <<"r", "u", "n">>, runall |-> <<"r", "u", "n", "all">>, rub |-> <<"r", "u", "b">>,
   buff |-> <<"buff">>, nobuff |-> <<"no", "buff">>, modbuff |-> <<"mod", "buff">>,
   nomodbuff |-> <<"no", "mod", "buff">>, modbufflength |-> <<"mod", "buff", "length">>]
  @@ ("modbufflength?" :> <<"mod", "buff", "length", "?">>)
  @@ [n \in MCNoArguments \cup MCArguments |-> <<n>>]
MCNames == {[name |-> n, letters |-> MCPieces[n]] : n \in DOMAIN MCPieces}

MCTyped(n, args) == [word |-> MCPieces[n], args |-> [i \in DOMAIN args |-> MCWord(args[i])]]
MCUnknown ==
  {<<"r">>, <<"r", "u">>, <<"r", "u", "n", "r">>, <<"no">>, <<"mod">>,
   <<"mod", "buff", "length", "?", "?">>, <<"x">>}
MCLines ==
  {MCTyped(n, <<>>) : n \in MCNoArguments
                            \cup {"buff", "nobuff", "modbuff", "nomodbuff", "modbufflength?"}
                            \cup {"lru", "nclock", "load", "schedMLFQ", "tstkmalloc", "modbufflength"}}
  \cup {MCTyped("lru", <<t>>) : t \in {"0", "1", "2"}}
  \cup {MCTyped("nclock", <<"2">>), MCTyped("schedMLFQ", <<"2">>), MCTyped("modbufflength", <<"0">>)}
  \cup {MCTyped("load", args) :
          args \in {<<"p", "0">>, <<"p", "3">>, <<"p", "5">>, <<"p", "3", "2">>, <<"p", "3", "3">>,
                    <<"p", "0", "2">>, <<"p", "3", "-1">>, <<"p", "2", "1", "5">>,
                    <<"p", "3", "101">>, <<"p", "2", "1", "101">>}}
  \cup {MCTyped("run", <<"p", "3">>)}
  \cup {MCTyped("tstkmalloc", <<t>>) : t \in {"0", "1", "2", "3"}}
  \cup {MCTyped("tstkheap", args) :
          args \in {<<"FF", "kmalloc", "2">>, <<"bf", "kmalloc", "3">>, <<"NF", "kmalloc">>, <<"NF">>,
                    <<"NF", "kfree">>, <<"FF", "kfree">>, <<"x", "kmalloc", "2">>,
                    <<"BF", "krealloc">>, <<"FF", "krealloc">>, <<"BF", "kphysaddr">>,
                    <<"BF", "kvirtaddr">>}}
  \cup {MCTyped("tstlsts", args) : args \in {<<"find">>, <<"x">>, <<>>}}
  \cup {MCTyped("tstchunks", <<"share">>), MCTyped("tstpg", <<"v2p">>)}
  \cup {[word |-> w, args |-> <<>>] : w \in MCUnknown}
============================================================================
