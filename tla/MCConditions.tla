---------------------------- MODULE MCConditions ----------------------------
(* Small trees over small documents for TLC.                               *)
EXTENDS Comparable

MCNotDecimal == -1
MCPointer == {"amount", "flag", "list", "ok", "kind"}
MCPathLen == [p \in MCPointer |-> IF p = "amount" THEN 5 ELSE 3]
MCTokens == [p \in MCPointer |-> IF p = "amount" THEN 2 ELSE 1]
MCTokenBytes == [p \in MCPointer |-> IF p = "amount" THEN 3 ELSE 2]
MCNameLen == ("proof" :> 2) @@ ("note" :> 20)

Scalar(type, text, num, len) == [type |-> type, text |-> text, num |-> num, len |-> len, items |-> <<>>]
absent == Scalar("absent", "", -1, 0)
yes == Scalar("boolean", "true", -1, 0)
no == Scalar("boolean", "false", -1, 0)
five == Scalar("string", "5", 10, 1)
fiveToo == Scalar("string", "5.0", 10, 3)
seven == Scalar("string", "7", 14, 1)
bare == Scalar("number", "7", 14, 1)
word == Scalar("string", "word", -1, 4)
Array(items) == [type |-> "array", text |-> "", num |-> -1, len |-> 0, items |-> items]

Blank == [p \in MCPointer |-> absent]
Element(o, k) == [Blank EXCEPT !["ok"] = o, !["kind"] = k]
MCSupply == [p \in MCPointer |->
    CASE p \in {"amount", "kind"} -> {five, seven}
      [] p \in {"flag", "ok"} -> {yes, no}
      [] p = "list" -> {Array(<<Element(o, k)>>) : o \in {yes, no}, k \in {five, seven}}]

Fact(p, operator, values) == [op |-> "fact", path |-> p, operator |-> operator, values |-> values]
Not(c) == [op |-> "not", condition |-> c]
Literal(b) == [op |-> "literal", value |-> b]
Tree(op, kids) == [op |-> op, conditions |-> kids]
Over(op, c) == [op |-> op, path |-> "list", where |-> c]

Leaf == {Fact("amount", "greater-than", <<five>>),
         Fact("flag", "equals", <<yes>>),
         [op |-> "evidence-present", requirement |-> "proof"]}
Spare == {Literal(TRUE), Fact("amount", "in", <<five, bare>>),
          Fact("amount", "less-than-or-equal", <<fiveToo>>), Not(Fact("flag", "not-equals", <<yes>>))}
Pairs(S, T) == {Tree(op, <<c, d>>) : op \in {"all", "any"}, c \in S, d \in T}
Flat == Pairs(Leaf \cup Spare, Leaf)
Trees == Flat \cup Pairs(Leaf, Pairs(Leaf, Leaf)) \cup {Not(c) : c \in Flat}

Where == LET o == Fact("ok", "equals", <<yes>>)
             k == Fact("kind", "greater-than", <<five>>)
         IN  {o, Tree("all", <<o, k>>), Tree("any", <<Not(k), o>>), Tree("any", <<k, [op |-> "evidence-present", requirement |-> "proof"]>>)}
Aggregates == {Over(op, c) : op \in {"exists", "every"}, c \in Where}
              \cup {[op |-> "uniform", path |-> "list", at |-> "kind"]}
Mixed == Aggregates \cup Pairs(Aggregates, {Fact("flag", "equals", <<yes>>)})

Elements == {Element(o, k) : o \in {absent, yes, no}, k \in {absent, five, bare}}
            \cup {Element(yes, seven), Element(no, seven)}
Lists == {absent, yes} \cup {Array(s) : s \in BoundedSeq(Elements, 2)}
         \cup {Array(s) : s \in SeqOf({Element(absent, seven), Element(yes, fiveToo), Element(no, absent)}, 3)}

Proof == [{"proof"} -> {"true", "false", "unknown"}]
(* Rules of one path and of two, over values below, at, between and above  *)
(* the authored ones.                                                      *)
six == Scalar("string", "6", 12, 1)
nine == Scalar("string", "9", 18, 1)
Amount == {Fact("amount", o, <<v>>) : o \in OrderedOperators, v \in {five, seven}}
          \cup {Fact("amount", "equals", <<five>>), Fact("amount", "in", <<fiveToo, bare>>),
                Fact("amount", "not-equals", <<seven>>)}
Either == Tree("any", <<Fact("amount", "greater-than", <<five>>), Fact("amount", "less-than", <<five>>)>>)
RulePairs ==
    LET ruled == Amount \cup {Not(c) : c \in Amount \cup Leaf} \cup {Literal(TRUE), Literal(FALSE)}
                 \cup Pairs(Leaf, {Fact("amount", "less-than", <<seven>>)})
                 \cup {Not(c) : c \in Pairs(Leaf, {Fact("flag", "not-equals", <<yes>>)})}
                 \cup {Tree("any", SetToSeq(Leaf)), Tree("all", <<Either, Either>>)}
    IN  {<<c, d>> : c, d \in ruled} \cup {<<c, Fact("amount", "less-than-or-equal", <<five>>), d>> : c, d \in Leaf}
RuleInputs ==
    [stages : RulePairs,
     facts : {[Blank EXCEPT !["amount"] = a, !["flag"] = no] :
                 a \in {absent, five, fiveToo, six, seven, bare, nine}},
     evidence : [{"proof"} -> {"true"}]]
MCOutcome == <<"a", "b", "a">>

MCInputs ==
    RuleInputs
    \cup [stages : {<<c>> : c \in Trees},
          facts : {[Blank EXCEPT !["amount"] = a, !["flag"] = f] :
                      a \in {absent, fiveToo, seven, bare, word}, f \in {absent, yes, five}},
          evidence : Proof]
    \cup [stages : {<<c>> : c \in Mixed},
          facts : {[Blank EXCEPT !["list"] = l, !["flag"] = f] : l \in Lists, f \in {absent, no}},
          evidence : [{"proof"} -> {"unknown"}]]
    \cup [stages : {<<c, d, Fact("list", "equals", <<yes>>)>> : c \in Leaf \cup Spare, d \in Mixed \cup Leaf},
          facts : {[Blank EXCEPT !["amount"] = a,
                                 !["list"] = Array(<<Element(yes, five), Element(absent, seven)>>)] :
                      a \in {absent, five}},
          evidence : [{"proof"} -> {"true"}]]
MCBudgets == {0, 11, 30, 1000}
=============================================================================
