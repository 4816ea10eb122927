------------------------------ MODULE MCSorter ------------------------------
(* A small instance of Sorter for TLC: one file with all kinds of content, *)
(* beside files with a number or two.                                      *)
EXTENDS Sorter

Plain(nums) == [nums |-> nums, trail |-> FALSE]

AnyFile == {Plain(s) : s \in UNION {[1 .. n -> 0 .. 2] : n \in 0 .. 3}}
           \cup {Plain(s) : s \in {t \in [1 .. 5 -> 0 .. 2] : t[1] # 1 /\ t[2] # 0}}
           \cup {Plain(s) : s \in {t \in [1 .. 4 -> 0 .. 2] : t[1] # 1}}
           \cup {[nums |-> s, trail |-> TRUE] : s \in {<<1>>, <<2, 1>>, <<1, 2, 0, 2>>}}

SomeInputs == {<<f, g, Plain(<<0>>), Plain(<<1>>)>> :
                 f \in AnyFile, g \in {Plain(<<1>>), Plain(<<2, 0>>)}}
=============================================================================
