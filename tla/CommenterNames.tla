--------------------------- MODULE CommenterNames ---------------------------
(***************************************************************************)
(* utils.GetCommenterName: the name of the n-th commenter of a post, made  *)
(* of two lists of words.  A name is the sequence of its words' places in  *)
(* the lists, or a suffix to ExtraNamePrefix; <<>> is consts.DzName.       *)
(***************************************************************************)
EXTENDS Integers

CONSTANTS
    Words,      \* words in each of name_dictionary's lists: 26
    Extra       \* consts.ExtraNamePrefix

ASSUME WordsAssumption == Words \in Nat \ {0}

Place == 0 .. Words - 1

Names == {<<>>} \cup {<<i>> : i \in Place} \cup (Place \X Place)
         \cup ({Extra} \X (Nat \ {0}))

ASSUME ExtraAssumption == Extra \notin Place

GetCommenterName(id) ==
    CASE id = 0 -> <<>>
      [] 0 < id /\ id <= Words -> <<id - 1>>
      [] Words < id /\ id <= Words * (Words + 1) ->
            <<(id - 1) \div Words - 1, (id - 1) % Words>>
      [] OTHER -> <<Extra, id - Words * (Words + 1)>>
=============================================================================
