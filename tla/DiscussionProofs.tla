-------------------------- MODULE DiscussionProofs --------------------------
(* Proofs about Discussion, for any users, any viewers, any options of the   *)
(* vote, any number of transactions and of comments, and lists of names of   *)
(* any length.                                                               *)
EXTENDS Discussion, FiniteSetTheorems, TLAPS

-----------------------------------------------------------------------------
(* CommenterNames: no two numbers of commenters have the same name, however  *)
(* many there are.                                                           *)

\* The number of a name of two words is regained from its quotient and remainder.
LEMMA DivMod ==
    ASSUME NEW m \in Nat
    PROVE  /\ m \div Words \in Nat
           /\ (m % Words) \in Place
           /\ m = Words * (m \div Words) + (m % Words)
  BY WordsAssumption, SMT DEF Place

\* Multiplication keeps the order.
LEMMA TimesMonotonic ==
    ASSUME NEW a \in Nat, NEW b \in Nat, NEW c \in Nat, a <= b
    PROVE  c * a <= c * b
  <1>1. b = a + (b - a) /\ b - a \in Nat
    BY SMT
  <1>2. c * b = c * a + c * (b - a)
    BY <1>1, SMT
  <1>3. c * (b - a) \in Nat
    BY <1>1, SMT
  <1> QED
    BY <1>2, <1>3, SMT

\* The index into the first list is within it.
LEMMA FirstWord ==
    ASSUME NEW m \in Nat, Words <= m, m < Words * (Words + 1)
    PROVE  m \div Words - 1 \in Place
  <1> DEFINE q == m \div Words
  <1> USE WordsAssumption
  <1>1. q \in Nat /\ (m % Words) \in Place /\ m = Words * q + (m % Words)
    BY DivMod
  <1> HIDE DEF q
  <1>2. q # 0
    <2>1. q = 0 => Words * q = 0
      BY SMT
    <2> QED
      BY <1>1, <2>1, SMT DEF Place
  <1>3. q <= Words
    <2>1. SUFFICES ASSUME Words + 1 <= q PROVE FALSE
      BY <1>1, SMT
    <2>2. Words * (Words + 1) <= Words * q
      BY <1>1, <2>1, TimesMonotonic
    <2>3. Words * q \in Nat /\ Words * (Words + 1) \in Nat
      BY <1>1, SMT
    <2> QED
      BY <1>1, <2>2, <2>3, SMT DEF Place
  <1> QED
    BY <1>1, <1>2, <1>3, SMT DEF q, Place

-----------------------------------------------------------------------------
(* The four kinds of names.                                                *)

Last == Words * (Words + 1)
One(n) == 0 < n /\ n <= Words
Two(n) == Words < n /\ n <= Last
Many(n) == Last < n

\* Which of the four forms the name of a number has.
LEMMA Kinds ==
    ASSUME NEW n \in Nat
    PROVE  /\ Last \in Nat /\ Words <= Last
           /\ n = 0 \/ One(n) \/ Two(n) \/ Many(n)
           /\ n = 0 => GetCommenterName(n) = <<>>
           /\ One(n) => GetCommenterName(n) = <<n - 1>> /\ n - 1 \in Place
           /\ Two(n) => /\ GetCommenterName(n)
                            = <<(n - 1) \div Words - 1, (n - 1) % Words>>
                       /\ (n - 1) \div Words - 1 \in Place
                       /\ ((n - 1) % Words) \in Place
           /\ Many(n) => GetCommenterName(n) = <<Extra, n - Last>>
  <1> USE WordsAssumption
  <1>1. Last \in Nat /\ Words <= Last
    <2>1. Last = Words * Words + Words /\ Words * Words \in Nat
      BY SMT DEF Last
    <2> QED
      BY <2>1, SMT
  <1>2. n = 0 \/ One(n) \/ Two(n) \/ Many(n)
    BY <1>1, SMT DEF One, Two, Many
  <1>3. n = 0 => GetCommenterName(n) = <<>>
    BY DEF GetCommenterName
  <1>4. One(n) => GetCommenterName(n) = <<n - 1>> /\ n - 1 \in Place
    BY SMT DEF GetCommenterName, One, Place
  <1>5. ASSUME Two(n)
        PROVE  /\ GetCommenterName(n) = <<(n - 1) \div Words - 1, (n - 1) % Words>>
               /\ (n - 1) \div Words - 1 \in Place
               /\ ((n - 1) % Words) \in Place
    <2>1. n - 1 \in Nat /\ Words <= n - 1 /\ n - 1 < Last
      BY <1>1, <1>5, SMT DEF Two
    <2>2. n # 0 /\ ~ One(n) /\ Words < n /\ n <= Last
      BY <1>1, <1>5, SMT DEF Two, One
    <2>3. GetCommenterName(n) = <<(n - 1) \div Words - 1, (n - 1) % Words>>
      BY <2>2, Zenon DEF GetCommenterName, One, Last
    <2> QED
      BY <2>1, <2>3, FirstWord, DivMod DEF Last
  <1>6. ASSUME Many(n) PROVE GetCommenterName(n) = <<Extra, n - Last>>
    <2>1. ~ (n = 0) /\ ~ (0 < n /\ n <= Words) /\ ~ (Words < n /\ n <= Last)
      BY <1>1, <1>6, SMT DEF Many
    <2> QED
      BY <2>1, Zenon DEF GetCommenterName, Last
  <1> QED
    BY <1>1, <1>2, <1>3, <1>4, <1>5, <1>6

\* A name is always found: no index is outside its list (utils.go:106 and 108,
\* which would panic).
THEOREM NamesDefined == \A n \in Nat : GetCommenterName(n) \in Names
  <1> SUFFICES ASSUME NEW n \in Nat PROVE GetCommenterName(n) \in Names
    OBVIOUS
  <1>1. CASE n = 0
    BY <1>1, Kinds DEF Names
  <1>2. CASE One(n)
    BY <1>2, Kinds DEF Names
  <1>3. CASE Two(n)
    BY <1>3, Kinds DEF Names
  <1>4. CASE Many(n)
    <2>1. n - Last \in Nat \ {0}
      BY <1>4, Kinds, SMT DEF Many
    <2> QED
      BY <1>4, <2>1, Kinds DEF Names
  <1> QED
    BY <1>1, <1>2, <1>3, <1>4, Kinds

\* Names of different kinds differ.
LEMMA SameKind ==
    ASSUME NEW m \in Nat, NEW n \in Nat,
           GetCommenterName(m) = GetCommenterName(n)
    PROVE  /\ m = 0 => n = 0
           /\ One(m) => One(n)
           /\ Two(m) => Two(n)
           /\ Many(m) => Many(n)
  <1> DEFINE Zero(x) == x = 0
             Shape(x, w) ==
                /\ Zero(x) => w = <<>>
                /\ One(x) => \E i \in Place : w = <<i>>
                /\ Two(x) => \E i, j \in Place : w = <<i, j>>
                /\ Many(x) => \E k \in Int : w = <<Extra, k>>
                /\ Zero(x) \/ One(x) \/ Two(x) \/ Many(x)
  <1>1. ASSUME NEW x \in Nat PROVE Shape(x, GetCommenterName(x))
    <2>1. Zero(x) => GetCommenterName(x) = <<>>
      BY Kinds
    <2>2. One(x) => \E i \in Place : GetCommenterName(x) = <<i>>
      BY Kinds
    <2>3. Two(x) => \E i, j \in Place : GetCommenterName(x) = <<i, j>>
      BY Kinds
    <2>4. Many(x) => \E k \in Int : GetCommenterName(x) = <<Extra, k>>
      <3>1. x - Last \in Int
        BY Kinds
      <3> QED
        BY <3>1, Kinds
    <2> QED
      BY <2>1, <2>2, <2>3, <2>4, Kinds
  <1>2. PICK w : w = GetCommenterName(m)
    OBVIOUS
  <1>3. Shape(m, w) /\ Shape(n, w)
    BY <1>1, <1>2
  <1>4. \A i, j, k \in Place, z \in Int :
           /\ <<>> # <<i>> /\ <<>> # <<i, j>> /\ <<>> # <<Extra, z>>
           /\ <<i>> # <<j, k>> /\ <<i>> # <<Extra, z>> /\ <<i, j>> # <<Extra, z>>
    BY ExtraAssumption, SMT
  <1>5. CASE m = 0
    <2>1. w = <<>> /\ ~One(n) /\ ~Two(n) /\ ~Many(n)
      BY <1>3, <1>4, <1>5
    <2>2. ~One(m) /\ ~Two(m) /\ ~Many(m)
      BY <1>3, <1>4, <1>5
    <2> QED
      BY <1>3, <2>1, <2>2
  <1>6. CASE One(m)
    <2>1. PICK i \in Place : w = <<i>>
      BY <1>3, <1>6
    <2>2. n # 0 /\ ~Two(n) /\ ~Many(n)
      BY <1>3, <1>4, <2>1
    <2>3. m # 0 /\ ~Two(m) /\ ~Many(m)
      BY <1>3, <1>4, <2>1
    <2> QED
      BY <1>3, <2>2, <2>3
  <1>7. CASE Two(m)
    <2>1. PICK i \in Place, j \in Place : w = <<i, j>>
      BY <1>3, <1>7
    <2>2. n # 0 /\ ~One(n) /\ ~Many(n)
      BY <1>3, <1>4, <2>1
    <2>3. m # 0 /\ ~One(m) /\ ~Many(m)
      BY <1>3, <1>4, <2>1
    <2> QED
      BY <1>3, <2>2, <2>3
  <1>8. CASE Many(m)
    <2>1. PICK k \in Int : w = <<Extra, k>>
      BY <1>3, <1>8
    <2>2. n # 0 /\ ~One(n) /\ ~Two(n)
      BY <1>3, <1>4, <2>1
    <2>3. m # 0 /\ ~One(m) /\ ~Two(m)
      BY <1>3, <1>4, <2>1
    <2> QED
      BY <1>3, <2>2, <2>3
  <1> QED
    BY <1>3, <1>5, <1>6, <1>7, <1>8

\* Commenters with different numbers have different names, those past the product
\* of the lists included.
THEOREM NamesDistinct ==
    \A m, n \in Nat : GetCommenterName(m) = GetCommenterName(n) => m = n
  <1> SUFFICES ASSUME NEW m \in Nat, NEW n \in Nat,
                      GetCommenterName(m) = GetCommenterName(n)
               PROVE  m = n
    OBVIOUS
  <1> USE WordsAssumption
  <1>1. CASE m = 0
    BY <1>1, SameKind
  <1>2. CASE One(m)
    <2>1. One(n)
      BY <1>2, SameKind
    <2>2. <<m - 1>> = <<n - 1>>
      BY <1>2, <2>1, Kinds, Zenon
    <2> QED
      BY <2>2
  <1>3. CASE Two(m)
    <2>1. Two(n)
      BY <1>3, SameKind
    <2> DEFINE q(x) == (x - 1) \div Words
               r(x) == (x - 1) % Words
    <2>2. <<q(m) - 1, r(m)>> = <<q(n) - 1, r(n)>>
      BY <1>3, <2>1, Kinds, Zenon
    <2>3. m - 1 \in Nat /\ n - 1 \in Nat
      BY <1>3, <2>1, SMT DEF Two
    <2>4. /\ q(m) \in Nat /\ m - 1 = Words * q(m) + r(m) /\ r(m) \in Place
          /\ q(n) \in Nat /\ n - 1 = Words * q(n) + r(n) /\ r(n) \in Place
      BY <2>3, DivMod
    <2> HIDE DEF q, r
    <2>5. q(m) = q(n) /\ r(m) = r(n)
      BY <2>2, <2>4
    <2>6. m - 1 = n - 1
      BY <2>4, <2>5, Zenon
    <2> QED
      BY <2>6, SMT
  <1>4. CASE Many(m)
    <2>1. Many(n)
      BY <1>4, SameKind
    <2>2. <<Extra, m - Last>> = <<Extra, n - Last>>
      BY <1>4, <2>1, Kinds, Zenon
    <2> QED
      BY <2>2, Kinds
  <1> QED
    BY <1>1, <1>2, <1>3, <1>4, Kinds

-----------------------------------------------------------------------------
(* The rows of one post.                                                     *)

\* The tables are finite.
FiniteInv ==
    /\ IsFiniteSet(comments) /\ IsFiniteSet(Commenters)
    /\ IsFiniteSet(attention) /\ IsFiniteSet(votes)

\* An open transaction has its request.
RequestsInv == \A h \in Handler : pc[h] # "idle" => req[h] \in Request

\* Comments are numbered by the table's auto increment.
IdsInv ==
    /\ \A c \in comments : c.id <= lastId
    /\ \A c, d \in comments : c.id = d.id => c = d

\* Who has commented has a first comment, whose name GenCommenterName returns.
FirstInv ==
    \A c \in comments : \E f \in comments :
        f.user = c.user /\ \A d \in comments : d.user = c.user => f.id <= d.id

RowsInv == TypeOK /\ FiniteInv /\ RequestsInv /\ IdsInv /\ FirstInv

\* A transaction that writes has the post's row locked, and what it read still holds.
LockInv ==
    \A h \in Handler : pc[h] = "write" =>
        /\ lock = h
        /\ name[h] = GenName(req[h].user)
        /\ data[h] = voteData

\* The names given so far are those of the numbers up to that of the commenters.
NumbersInv ==
    \A c \in comments : c.user # Dz =>
        \E k \in 1 .. Cardinality(Commenters) : c.name = GetCommenterName(k)

-----------------------------------------------------------------------------
\* The actions of Next one by one.
LEMMA NextCases ==
    ASSUME [Next]_vars, NEW P,
           \A h \in Handler : \A q \in Request : Arrive(h, q) => P,
           \A h \in Handler : Lock(h) => P,
           \A h \in Handler : NotFound(h) => P,
           \A h \in Handler : RollBack(h) => P,
           \A h \in Handler : CommitComment(h) => P,
           \A h \in Handler : CommitWatch(h) => P,
           \A h \in Handler : CommitUnwatch(h) => P,
           \A h \in Handler : CommitVote(h) => P,
           \A c \in comments : DeleteComment(c) => P,
           \A c \in comments : RestoreComment(c) => P,
           \A c \in comments : RestoreUncounted(c) => P,
           HidePost => P,
           UNCHANGED vars => P
    PROVE  P
BY DEF Next

\* A request's fields.
LEMMA RequestFields ==
    ASSUME NEW q \in Request
    PROVE  /\ q.user \in User /\ q.kind \in {"comment", "watch", "unwatch", "vote"}
           /\ q.kind = "vote" => q.option \in Option
BY DEF Request, RequestKinds

\* The names are names: GenCommenterName returns that of the first comment, if there
\* is one.
LEMMA GenNameFirst ==
    ASSUME RowsInv, NEW u \in User
    PROVE  /\ u = Dz => GenName(u) = <<>>
           /\ \A c \in comments : u # Dz /\ c.user = u =>
                \E f \in comments : f.user = u /\ GenName(u) = f.name
           /\ u # Dz /\ (\A c \in comments : c.user # u) =>
                GenName(u) = GetCommenterName(Cardinality(Commenters) + 1)
           /\ GenName(u) \in Names
<1>1. u = Dz => GenName(u) = <<>>
  BY DEF GenName
<1>2. ASSUME NEW c \in comments, u # Dz, c.user = u
      PROVE  \E f \in comments : f.user = u /\ GenName(u) = f.name
  <2> DEFINE mine == {d \in comments : d.user = u}
             f == CHOOSE d \in mine : \A e \in mine : d.id <= e.id
  <2>1. \E d \in mine : \A e \in mine : d.id <= e.id
    BY <1>2 DEF RowsInv, FirstInv
  <2>2. f \in mine
    BY <2>1
  <2>3. GenName(u) = f.name
    BY <1>2 DEF GenName
  <2> QED
    BY <2>2, <2>3
<1>3. u # Dz /\ (\A c \in comments : c.user # u) =>
        GenName(u) = GetCommenterName(Cardinality(Commenters) + 1)
  BY DEF GenName
<1>4. <<>> \in Names /\ \A c \in comments : c.name \in Names
  BY DEF Names, RowsInv, TypeOK, Comment
<1>5. Cardinality(Commenters) + 1 \in Nat
  BY FS_CardinalityType DEF RowsInv, FiniteInv
<1> QED
  BY <1>1, <1>2, <1>3, <1>4, <1>5, NamesDefined

\* What a transaction leaves behind when it ends.
LEMMA EndRows ==
    ASSUME RowsInv, NEW h \in Handler, End(h)
    PROVE  /\ pc' \in [Handler -> {"idle", "begin", "write"}]
           /\ req' \in [Handler -> Request \cup {NoRequest}]
           /\ name' \in [Handler -> Names] /\ data' \in [Handler -> [Option -> Nat]]
           /\ pc'[h] = "idle"
           /\ \A g \in Handler : g # h =>
                pc'[g] = pc[g] /\ req'[g] = req[g] /\ name'[g] = name[g] /\ data'[g] = data[g]
           /\ RequestsInv'
<1>1. <<>> \in Names /\ Nothing \in [Option -> Nat]
  BY DEF Names, Nothing
<1> QED
  BY <1>1 DEF End, RowsInv, TypeOK, RequestsInv

\* What deleting or restoring a comment changes: nothing but whether it is live.
LEMMA Replaced ==
    ASSUME RowsInv, NEW c \in comments, NEW b \in BOOLEAN,
           comments' = (comments \ {c}) \cup {[c EXCEPT !.live = b]}, lastId' = lastId
    PROVE  /\ comments' \in SUBSET Comment
           /\ IsFiniteSet(comments')
           /\ Commenters' = Commenters
           /\ IdsInv' /\ FirstInv'
           /\ \A d \in comments' : \E e \in comments :
                e.id = d.id /\ e.user = d.user /\ e.name = d.name
           /\ \A e \in comments : \E d \in comments' :
                e.id = d.id /\ e.user = d.user /\ e.name = d.name
           /\ {d \in comments' : d.live} =
                IF b THEN {d \in comments : d.live} \cup {[c EXCEPT !.live = b]}
                ELSE {d \in comments : d.live} \ {c}
<1> DEFINE n == [c EXCEPT !.live = b]
<1>1. c \in Comment /\ comments \in SUBSET Comment
  BY DEF RowsInv, TypeOK
<1>2. /\ n \in Comment /\ n.live = b
      /\ n.id = c.id /\ n.user = c.user /\ n.name = c.name
  BY <1>1 DEF Comment
<1>3. comments' = (comments \ {c}) \cup {n}
  OBVIOUS
<1> HIDE DEF n
<1>4. IsFiniteSet(comments')
  <2>1. IsFiniteSet(comments \ {c})
    BY FS_RemoveElement DEF RowsInv, FiniteInv
  <2>2. IsFiniteSet((comments \ {c}) \cup {n})
    BY <2>1, FS_AddElement
  <2> QED
    BY <1>3, <2>2
<1>5. /\ \A d \in comments' : \E e \in comments :
           e.id = d.id /\ e.user = d.user /\ e.name = d.name
      /\ \A e \in comments : \E d \in comments' :
           e.id = d.id /\ e.user = d.user /\ e.name = d.name
  BY <1>2, <1>3
<1>6. Commenters' = Commenters
  BY <1>5 DEF Commenters
<1>7. IdsInv'
  BY <1>2, <1>3 DEF RowsInv, IdsInv
<1>8. FirstInv'
  <2> SUFFICES ASSUME NEW d \in comments'
               PROVE  \E f \in comments' : f.user = d.user /\
                        \A e \in comments' : e.user = d.user => f.id <= e.id
    BY DEF FirstInv
  <2>1. PICK d0 \in comments : d0.user = d.user
    BY <1>5
  <2>2. PICK f0 \in comments :
          f0.user = d0.user /\ \A e \in comments : e.user = d0.user => f0.id <= e.id
    BY DEF RowsInv, FirstInv
  <2>3. PICK f \in comments' : f.id = f0.id /\ f.user = f0.user
    BY <1>5
  <2> QED
    BY <1>5, <2>1, <2>2, <2>3
<1>9. {d \in comments' : d.live} =
        IF b THEN {d \in comments : d.live} \cup {n} ELSE {d \in comments : d.live} \ {c}
  <2>1. CASE b
    <3>1. c.live => n = c
      BY <1>1, <2>1 DEF n, Comment
    <3> QED
      BY <1>2, <1>3, <2>1, <3>1
  <2>2. CASE ~b
    BY <1>2, <1>3, <2>2
  <2> QED
    BY <2>1, <2>2
<1> QED
  BY <1>1, <1>2, <1>3, <1>4, <1>5, <1>6, <1>7, <1>8, <1>9 DEF n

\* What sendComment's commit does to the table.
LEMMA CommentEffect ==
    ASSUME RowsInv, NEW h \in Handler, CommitComment(h)
    PROVE  /\ [id |-> lastId + 1, user |-> req[h].user, name |-> name[h], live |-> TRUE] \in Comment
           /\ \A c \in comments : c.id < lastId + 1
           /\ FiniteInv' /\ IdsInv' /\ FirstInv'
           /\ Commenters' = IF req[h].user = Dz THEN Commenters
                            ELSE Commenters \cup {req[h].user}
<1> DEFINE n == [id |-> lastId + 1, user |-> req[h].user, name |-> name[h], live |-> TRUE]
           u == req[h].user
<1>1. u \in User /\ lastId \in Nat /\ lastId' = lastId + 1
  BY RequestFields DEF CommitComment, Commit, RowsInv, RequestsInv, TypeOK
<1>2. n \in Comment
  BY <1>1 DEF Comment, RowsInv, TypeOK
<1>3. comments' = comments \cup {n} /\ attention' = attention \cup {u} /\ votes' = votes
  BY DEF CommitComment, Watch
<1>4. n.id = lastId + 1 /\ n.user = u
  OBVIOUS
<1>5. \A c \in comments : c.id \in Nat /\ c.id <= lastId
  BY DEF RowsInv, TypeOK, IdsInv, Comment
<1> HIDE DEF n
<1>6. Commenters' = IF u = Dz THEN Commenters ELSE Commenters \cup {u}
  BY <1>3, <1>4 DEF Commenters
<1>7. FiniteInv'
  <2>1. IsFiniteSet(comments \cup {n}) /\ IsFiniteSet(Commenters \cup {u})
        /\ IsFiniteSet(attention \cup {u})
    BY FS_AddElement DEF RowsInv, FiniteInv
  <2> QED
    BY <1>3, <1>6, <2>1 DEF RowsInv, FiniteInv
<1>8. IdsInv'
  BY <1>1, <1>3, <1>4, <1>5 DEF RowsInv, IdsInv
<1>9. FirstInv'
  <2> SUFFICES ASSUME NEW d \in comments'
               PROVE  \E f \in comments' : f.user = d.user /\
                        \A e \in comments' : e.user = d.user => f.id <= e.id
    BY DEF FirstInv
  <2>1. CASE \E d0 \in comments : d0.user = d.user
    <3>1. PICK f \in comments :
            f.user = d.user /\ \A e \in comments : e.user = d.user => f.id <= e.id
      BY <2>1 DEF RowsInv, FirstInv
    <3>2. f.id <= n.id
      BY <1>1, <1>4, <1>5
    <3> QED
      BY <1>3, <3>1, <3>2
  <2>2. CASE \A d0 \in comments : d0.user # d.user
    <3>1. d = n
      BY <1>3, <2>2
    <3>2. \A e \in comments' : e.user = n.user => e = n
      BY <1>3, <2>2, <3>1
    <3> QED
      BY <1>1, <1>4, <3>1, <3>2
  <2> QED
    BY <2>1, <2>2
<1> QED
  BY <1>1, <1>2, <1>5, <1>6, <1>7, <1>8, <1>9 DEF n

\* Every step keeps the rows well formed.
LEMMA RowsStep ==
    ASSUME RowsInv, [Next]_vars
    PROVE  RowsInv'
<1> USE DEF RowsInv
<1>1. ASSUME NEW h \in Handler, NEW q \in Request, Arrive(h, q) PROVE RowsInv'
  BY <1>1 DEF Arrive, post, TypeOK, FiniteInv, RequestsInv, IdsInv, FirstInv, Commenters
<1>2. ASSUME NEW h \in Handler, Lock(h) PROVE RowsInv'
  <2>1. GenName(req[h].user) \in Names
    BY <1>2, RequestFields, GenNameFirst DEF Lock, RequestsInv, TypeOK
  <2> QED
    BY <1>2, <2>1 DEF Lock, post, TypeOK, FiniteInv, RequestsInv, IdsInv, FirstInv, Commenters
<1>3. ASSUME NEW h \in Handler, NotFound(h) PROVE RowsInv'
  BY <1>3, EndRows DEF NotFound, post, TypeOK, FiniteInv, IdsInv, FirstInv, Commenters
<1>4. ASSUME NEW h \in Handler, RollBack(h) PROVE RowsInv'
  BY <1>4, EndRows DEF RollBack, Commit, post, TypeOK, FiniteInv, IdsInv, FirstInv, Commenters
<1>5. ASSUME NEW h \in Handler, CommitComment(h) PROVE RowsInv'
  <2>1. req[h].user \in User
    BY <1>5, RequestFields DEF CommitComment, Commit, RequestsInv, TypeOK
  <2> DEFINE n == [id |-> lastId + 1, user |-> req[h].user, name |-> name[h], live |-> TRUE]
  <2>2. n \in Comment /\ FiniteInv' /\ IdsInv' /\ FirstInv'
    BY <1>5, CommentEffect
  <2>3. comments' = comments \cup {n} /\ lastId' = lastId + 1 /\ replyNum' = replyNum + 1
    BY <1>5 DEF CommitComment
  <2>4. attention' \in SUBSET User /\ likeNum' \in Int
    BY <1>5, <2>1 DEF CommitComment, Watch, TypeOK
  <2> HIDE DEF n
  <2> QED
    BY <1>5, <2>2, <2>3, <2>4, EndRows DEF CommitComment, Commit, TypeOK
<1>6. ASSUME NEW h \in Handler, CommitWatch(h) PROVE RowsInv'
  <2>1. req[h].user \in User
    BY <1>6, RequestFields DEF CommitWatch, Commit, RequestsInv, TypeOK
  <2>2. IsFiniteSet(attention \cup {req[h].user})
    BY FS_AddElement DEF FiniteInv
  <2>3. attention' \in SUBSET User /\ IsFiniteSet(attention') /\ likeNum' \in Int
    BY <1>6, <2>1, <2>2 DEF CommitWatch, Watch, TypeOK
  <2> QED
    BY <1>6, <2>3, EndRows
    DEF CommitWatch, Commit, TypeOK, FiniteInv, IdsInv, FirstInv, Commenters
<1>7. ASSUME NEW h \in Handler, CommitUnwatch(h) PROVE RowsInv'
  <2>1. IsFiniteSet(attention \ {req[h].user})
    BY FS_RemoveElement DEF FiniteInv
  <2>2. attention' \in SUBSET User /\ IsFiniteSet(attention') /\ likeNum' \in Int
    <3>1. CASE req[h].user \in attention
      <4>1. attention' = attention \ {req[h].user} /\ likeNum' = likeNum - 1
        BY <1>7, <3>1 DEF CommitUnwatch, Unwatch
      <4> QED
        BY <2>1, <4>1 DEF TypeOK
    <3>2. CASE req[h].user \notin attention
      <4>1. attention' = attention /\ likeNum' = likeNum
        BY <1>7, <3>2 DEF CommitUnwatch
      <4> QED
        BY <4>1 DEF TypeOK, FiniteInv
    <3> QED
      BY <3>1, <3>2
  <2> QED
    BY <1>7, <2>2, EndRows
    DEF CommitUnwatch, Commit, TypeOK, FiniteInv, IdsInv, FirstInv, Commenters
<1>8. ASSUME NEW h \in Handler, CommitVote(h) PROVE RowsInv'
  <2> DEFINE v == [user |-> req[h].user, option |-> req[h].option]
  <2>1. v \in Vote /\ req[h].option \in Option
    BY <1>8, RequestFields DEF CommitVote, Commit, RequestsInv, TypeOK, Vote
  <2>2. IsFiniteSet(votes \cup {v})
    BY FS_AddElement DEF FiniteInv
  <2>3. votes' \in SUBSET Vote /\ IsFiniteSet(votes') /\ voteData' \in [Option -> Nat]
    <3>1. CASE HasVoted(req[h].user)
      BY <1>8, <3>1 DEF CommitVote, TypeOK, FiniteInv
    <3>2. CASE ~HasVoted(req[h].user)
      <4>1. votes' = votes \cup {v} /\ voteData' = [data[h] EXCEPT ![req[h].option] = @ + 1]
        BY <1>8, <3>2 DEF CommitVote
      <4>2. data[h] \in [Option -> Nat] /\ votes \in SUBSET Vote
        BY DEF TypeOK
      <4>3. votes \cup {v} \in SUBSET Vote
        BY <2>1, <4>2
      <4>4. voteData' \in [Option -> Nat]
        BY <2>1, <4>1, <4>2
      <4> QED
        BY <2>2, <4>1, <4>3, <4>4
    <3> QED
      BY <3>1, <3>2
  <2> QED
    BY <1>8, <2>3, EndRows
    DEF CommitVote, Commit, TypeOK, FiniteInv, IdsInv, FirstInv, Commenters
<1>9. ASSUME NEW c \in comments, NEW live \in BOOLEAN, SetLive(c, live), ByModeration,
             replyNum' \in Int, drift' \in Nat
      PROVE  RowsInv'
  <2>1. /\ comments' \in SUBSET Comment /\ IsFiniteSet(comments')
        /\ Commenters' = Commenters /\ IdsInv' /\ FirstInv'
    <3>1. comments' = (comments \ {c}) \cup {[c EXCEPT !.live = live]} /\ lastId' = lastId
      BY <1>9 DEF SetLive, ByModeration
    <3> QED
      BY <3>1, Replaced
  <2> QED
    BY <1>9, <2>1 DEF ByModeration, TypeOK, FiniteInv, RequestsInv
<1>10. ASSUME NEW c \in comments,
              DeleteComment(c) \/ RestoreComment(c) \/ RestoreUncounted(c)
       PROVE  RowsInv'
  <2>1. replyNum' \in Int /\ drift' \in Nat
    <3>1. replyNum \in Int /\ drift \in Nat
      BY DEF TypeOK
    <3>2. CASE DeleteComment(c)
      BY <3>1, <3>2 DEF DeleteComment
    <3>3. CASE RestoreComment(c)
      BY <3>1, <3>3 DEF RestoreComment
    <3>4. CASE RestoreUncounted(c)
      BY <3>1, <3>4 DEF RestoreUncounted
    <3> QED
      BY <1>10, <3>2, <3>3, <3>4
  <2> QED
    BY <1>9, <1>10, <2>1 DEF DeleteComment, RestoreComment, RestoreUncounted
<1>11. CASE HidePost
  BY <1>11 DEF HidePost, post, TypeOK, FiniteInv, RequestsInv, IdsInv, FirstInv, Commenters
<1>12. CASE UNCHANGED vars
  BY <1>12 DEF vars, post, TypeOK, FiniteInv, RequestsInv, IdsInv, FirstInv, Commenters
<1> HIDE DEF RowsInv
<1> QED
  BY <1>1, <1>2, <1>3, <1>4, <1>5, <1>6, <1>7, <1>8, <1>9, <1>10, <1>11, <1>12, NextCases

\* The tables are well formed all the time.
THEOREM RowsCorrect == Spec => []RowsInv
<1>1. Init => RowsInv
  <2> SUFFICES ASSUME Init PROVE RowsInv
    OBVIOUS
  <2>1. Commenters = {}
    BY DEF Init, Commenters
  <2>2. TypeOK
    <3>1. <<>> \in Names /\ Nothing \in [Option -> Nat] /\ Dz \in User
      BY UserAssumption DEF Nothing, Names
    <3>2. comments \in SUBSET Comment /\ votes \in SUBSET Vote /\ attention \in SUBSET User
      BY <3>1 DEF Init
    <3>3. lastId \in Nat /\ likeNum \in Int /\ replyNum \in Int
      BY DEF Init
    <3>6. hidden \in BOOLEAN /\ drift \in Nat
      BY DEF Init
    <3>4. /\ pc \in [Handler -> {"idle", "begin", "write"}]
          /\ req \in [Handler -> Request \cup {NoRequest}]
          /\ lock \in Handler \cup {NoTx}
      BY DEF Init
    <3>5. /\ name \in [Handler -> Names] /\ data \in [Handler -> [Option -> Nat]]
          /\ voteData \in [Option -> Nat]
      BY <3>1 DEF Init
    <3> QED
      BY <3>2, <3>3, <3>4, <3>5, <3>6 DEF TypeOK
  <2>3. FiniteInv
    BY <2>1, FS_EmptySet, FS_Singleton DEF Init, FiniteInv
  <2>4. RequestsInv /\ IdsInv /\ FirstInv
    BY DEF Init, RequestsInv, IdsInv, FirstInv
  <2> QED
    BY <2>2, <2>3, <2>4 DEF RowsInv
<1>2. RowsInv /\ [Next]_vars => RowsInv'
  BY RowsStep
<1> QED
  BY <1>1, <1>2, PTL DEF Spec

\* The variables keep their types: whoever writes has a name that exists.
THEOREM TypeCorrect == Spec => []TypeOK
<1>1. RowsInv => TypeOK
  BY DEF RowsInv
<1> QED
  BY <1>1, RowsCorrect, PTL

-----------------------------------------------------------------------------
\* The row lock lets one transaction write at a time.
LEMMA OneWriter ==
    ASSUME LockInv, NEW g \in Handler, pc[g] = "write"
    PROVE  lock # NoTx /\ \A h \in Handler : pc[h] = "write" => h = g
BY NoTxAssumption DEF LockInv

\* The name that GenCommenterName returns depends on the comments alone.
LEMMA SameName ==
    ASSUME NEW g \in Handler, comments' = comments, req'[g] = req[g]
    PROVE  GenName(req[g].user)' = GenName(req[g].user)
BY DEF GenName, Commenters

\* Nor does it change when a comment is deleted or restored.
LEMMA NameOfReplaced ==
    ASSUME RowsInv, NEW c \in comments, NEW b \in BOOLEAN,
           comments' = (comments \ {c}) \cup {[c EXCEPT !.live = b]}, lastId' = lastId,
           NEW u
    PROVE  GenName(u)' = GenName(u)
<1> DEFINE mine == {d \in comments : d.user = u}
           old == CHOOSE d \in mine : \A e \in mine : d.id <= e.id
           new == CHOOSE d \in mine' : \A e \in mine' : d.id <= e.id
<1>1. /\ \A d \in comments' : \E e \in comments :
           e.id = d.id /\ e.user = d.user /\ e.name = d.name
      /\ \A e \in comments : \E d \in comments' :
           e.id = d.id /\ e.user = d.user /\ e.name = d.name
      /\ Commenters' = Commenters /\ IdsInv' /\ FirstInv' /\ comments' \in SUBSET Comment
  BY Replaced
<1>2. CASE mine = {}
  <2>1. mine' = {}
    BY <1>1, <1>2
  <2> QED
    BY <1>1, <1>2, <2>1 DEF GenName
<1>3. CASE mine # {}
  <2>1. mine' # {}
    BY <1>1, <1>3
  <2>2. old \in mine /\ \A e \in mine : old.id <= e.id
    <3>1. \E d \in mine : \A e \in mine : d.id <= e.id
      BY <1>3 DEF RowsInv, FirstInv
    <3> QED
      BY <3>1
  <2>3. new \in mine' /\ \A e \in mine' : new.id <= e.id
    <3>1. \E d \in mine' : \A e \in mine' : d.id <= e.id
      BY <1>1, <2>1 DEF FirstInv
    <3> QED
      BY <3>1
  <2>4. GenName(u) = (IF u = Dz THEN <<>> ELSE old.name)
    BY <1>3 DEF GenName
  <2>5. GenName(u)' = (IF u = Dz THEN <<>> ELSE new.name)
    BY <2>1 DEF GenName
  <2> HIDE DEF old, new
  <2>6. PICK e \in mine : e.id = new.id /\ e.name = new.name
    BY <1>1, <2>3
  <2>7. PICK d \in mine' : d.id = old.id
    BY <1>1, <2>2
  <2>8. old.id \in Nat /\ new.id \in Nat
    BY <1>1, <2>2, <2>3 DEF RowsInv, TypeOK, Comment
  <2>9. old.id = e.id
    BY <2>2, <2>3, <2>6, <2>7, <2>8
  <2>10. old = e
    BY <2>2, <2>9 DEF RowsInv, IdsInv
  <2> QED
    BY <2>4, <2>5, <2>6, <2>10
<1> QED
  BY <1>2, <1>3

\* Whoever changes what a transaction has read needs the lock it holds.
LEMMA LockStep ==
    ASSUME RowsInv, LockInv, [Next]_vars
    PROVE  LockInv'
<1> SUFFICES ASSUME NEW g \in Handler, pc'[g] = "write"
             PROVE  lock' = g /\ name'[g] = GenName(req[g].user)' /\ data'[g] = voteData'
  BY DEF LockInv
<1> DEFINE P == lock' = g /\ name'[g] = GenName(req[g].user)' /\ data'[g] = voteData'
<1> USE DEF RowsInv, TypeOK
<1>1. ASSUME comments' = comments, lock' = lock, voteData' = voteData,
             pc[g] = "write", req'[g] = req[g], name'[g] = name[g], data'[g] = data[g]
      PROVE  P
  <2>1. lock = g /\ name[g] = GenName(req[g].user) /\ data[g] = voteData
    BY <1>1 DEF LockInv
  <2> QED
    BY <1>1, <2>1, SameName
<1>2. ASSUME NEW h \in Handler, NEW q \in Request, Arrive(h, q) PROVE P
  <2>1. h # g
    BY <1>2 DEF Arrive
  <2> QED
    BY <1>1, <1>2, <2>1 DEF Arrive, post
<1>3. ASSUME NEW h \in Handler, Lock(h) PROVE P
  <2>1. h = g
    BY <1>3, OneWriter DEF Lock
  <2>2. lock' = g /\ name'[g] = GenName(req[g].user) /\ data'[g] = voteData
    BY <1>3, <2>1 DEF Lock
  <2>3. comments' = comments /\ req'[g] = req[g] /\ voteData' = voteData
    BY <1>3 DEF Lock, post
  <2> QED
    BY <2>2, <2>3, SameName
<1>4. ASSUME NEW h \in Handler, NotFound(h) PROVE P
  <2>1. pc[g] = "write" /\ lock = NoTx
    BY <1>4 DEF NotFound, End
  <2> QED
    BY <2>1, OneWriter
<1>5. ASSUME NEW h \in Handler, Commit(h, req[h].kind) PROVE FALSE
  BY <1>5, OneWriter DEF Commit, End
<1>6. ASSUME NEW h \in Handler, RollBack(h) PROVE P
  BY <1>5, <1>6 DEF RollBack
<1>7. ASSUME NEW h \in Handler, CommitComment(h) PROVE P
  BY <1>5, <1>7 DEF CommitComment, Commit
<1>8. ASSUME NEW h \in Handler, CommitWatch(h) PROVE P
  BY <1>5, <1>8 DEF CommitWatch, Commit
<1>9. ASSUME NEW h \in Handler, CommitUnwatch(h) PROVE P
  BY <1>5, <1>9 DEF CommitUnwatch, Commit
<1>10. ASSUME NEW h \in Handler, CommitVote(h) PROVE P
  BY <1>5, <1>10 DEF CommitVote, Commit
<1>11. ASSUME NEW c \in comments, DeleteComment(c) PROVE P
  BY <1>11, OneWriter DEF DeleteComment, ByModeration
<1>12. ASSUME NEW c \in comments, RestoreComment(c) PROVE P
  BY <1>12, OneWriter DEF RestoreComment, ByModeration
<1>13. ASSUME NEW c \in comments, RestoreUncounted(c) PROVE P
  <2>1. pc[g] = "write" /\ lock = g /\ name[g] = GenName(req[g].user) /\ data[g] = voteData
    BY <1>13 DEF RestoreUncounted, ByModeration, LockInv
  <2>2. GenName(req[g].user)' = GenName(req[g].user)
    <3>1. comments' = (comments \ {c}) \cup {[c EXCEPT !.live = TRUE]} /\ lastId' = lastId
      BY <1>13 DEF RestoreUncounted, SetLive, ByModeration
    <3>2. \A u : GenName(u)' = GenName(u)
      BY <3>1, NameOfReplaced
    <3>3. req' = req
      BY <1>13 DEF RestoreUncounted, ByModeration
    <3> QED
      BY <3>2, <3>3
  <2> QED
    BY <1>13, <2>1, <2>2 DEF RestoreUncounted, ByModeration
<1>14. CASE HidePost
  BY <1>14, OneWriter DEF HidePost
<1>15. CASE UNCHANGED vars
  BY <1>1, <1>15 DEF vars
<1> HIDE DEF RowsInv, TypeOK
<1>16. P
  BY <1>2, <1>3, <1>4, <1>6, <1>7, <1>8, <1>9, <1>10, <1>11, <1>12, <1>13, <1>14, <1>15,
     NextCases
<1> QED
  BY <1>16 DEF P

\* SELECT ... FOR UPDATE of the post (routeApiPOST.go:164, 565, vote.go:32): what a transaction read
\* is still true when it writes.
THEOREM LockCorrect == Spec => []LockInv
<1>1. Init => LockInv
  BY DEF Init, LockInv
<1>2. RowsInv /\ LockInv /\ [Next]_vars => LockInv'
  BY LockStep
<1> QED
  BY <1>1, <1>2, RowsCorrect, PTL DEF Spec

-----------------------------------------------------------------------------
\* What a step does to the comments.
LEMMA CommentsStep ==
    ASSUME RowsInv, [Next]_vars
    PROVE  \/ comments' = comments
           \/ \E h \in Handler : CommitComment(h)
           \/ /\ Commenters' = Commenters
              /\ \A d \in comments' : \E e \in comments :
                   e.id = d.id /\ e.user = d.user /\ e.name = d.name
<1> DEFINE P == \/ comments' = comments
                \/ \E h \in Handler : CommitComment(h)
                \/ /\ Commenters' = Commenters
                   /\ \A d \in comments' : \E e \in comments :
                        e.id = d.id /\ e.user = d.user /\ e.name = d.name
<1>1. ASSUME NEW c \in comments, NEW live \in BOOLEAN, SetLive(c, live), ByModeration
      PROVE  P
  <2>1. comments' = (comments \ {c}) \cup {[c EXCEPT !.live = live]} /\ lastId' = lastId
    BY <1>1 DEF SetLive, ByModeration
  <2> QED
    BY <2>1, Replaced
<1>2. ASSUME NEW c \in comments,
             DeleteComment(c) \/ RestoreComment(c) \/ RestoreUncounted(c)
      PROVE  P
  BY <1>1, <1>2 DEF DeleteComment, RestoreComment, RestoreUncounted
<1>3. ASSUME NEW h \in Handler,
             \/ \E q \in Request : Arrive(h, q)
             \/ Lock(h) \/ NotFound(h) \/ RollBack(h)
             \/ CommitComment(h) \/ CommitWatch(h) \/ CommitUnwatch(h) \/ CommitVote(h)
      PROVE  P
  <2>1. comments' = comments \/ CommitComment(h)
    BY <1>3 DEF Arrive, Lock, NotFound, RollBack, CommitWatch, CommitUnwatch, CommitVote
  <2> QED
    BY <2>1 DEF P
<1>4. CASE HidePost \/ UNCHANGED vars
  BY <1>4 DEF HidePost, vars
<1>5. P
  <2>1. CASE Next
    BY <1>1, <1>2, <1>3, <1>4, <2>1 DEF Next
  <2> QED
    BY <1>4, <2>1
<1> QED
  BY <1>5 DEF P

NamesInv == NumbersInv /\ NamesIdentify

\* Every step keeps the names: the one that is written was computed from these comments.
LEMMA NamesStep ==
    ASSUME RowsInv, LockInv, NamesInv, [Next]_vars
    PROVE  NamesInv'
<1>1. CASE comments' = comments
  BY <1>1 DEF NamesInv, NumbersInv, NamesIdentify, Commenters
<1>2. CASE /\ Commenters' = Commenters
           /\ \A d \in comments' : \E e \in comments :
                e.id = d.id /\ e.user = d.user /\ e.name = d.name
  <2>1. NumbersInv'
    BY <1>2 DEF NamesInv, NumbersInv
  <2>2. NamesIdentify'
    BY <1>2 DEF NamesInv, NamesIdentify
  <2> QED
    BY <2>1, <2>2 DEF NamesInv
<1>3. ASSUME NEW h \in Handler, CommitComment(h)
      PROVE  NamesInv'
  <2> DEFINE u == req[h].user
             n == [id |-> lastId + 1, user |-> u, name |-> name[h], live |-> TRUE]
             K == Cardinality(Commenters)
  <2>1. /\ comments' = comments \cup {n} /\ n.user = u /\ n.name = GenName(u) /\ u \in User
    BY <1>3, RequestFields DEF CommitComment, Commit, LockInv, RowsInv, RequestsInv, TypeOK
  <2>2. Commenters' = IF u = Dz THEN Commenters ELSE Commenters \cup {u}
    BY <1>3, CommentEffect
  <2>3. K \in Nat
    BY FS_CardinalityType DEF RowsInv, FiniteInv
  <2> HIDE DEF n, u, K
  <2>4. CASE u = Dz
    <3>1. n.name = <<>> /\ Commenters' = Commenters
      BY <2>1, <2>2, <2>4, GenNameFirst
    <3>2. NumbersInv'
      BY <2>1, <2>4, <3>1 DEF NamesInv, NumbersInv
    <3>3. NamesIdentify'
      BY <2>1, <2>4, <3>1 DEF NamesInv, NamesIdentify
    <3> QED
      BY <3>2, <3>3 DEF NamesInv
  <2>5. CASE u # Dz /\ \E c \in comments : c.user = u
    <3>1. PICK f \in comments : f.user = u /\ n.name = f.name
      BY <2>1, <2>5, GenNameFirst
    <3>2. Commenters' = Commenters
      BY <2>2, <2>5 DEF Commenters
    <3>3. NumbersInv'
      BY <2>1, <2>5, <3>1, <3>2 DEF NamesInv, NumbersInv
    <3>4. NamesIdentify'
      BY <2>1, <2>5, <3>1 DEF NamesInv, NamesIdentify
    <3> QED
      BY <3>3, <3>4 DEF NamesInv
  <2>6. CASE u # Dz /\ \A c \in comments : c.user # u
    <3>1. n.name = GetCommenterName(K + 1)
      BY <2>1, <2>6, GenNameFirst DEF K
    <3>2. Cardinality(Commenters') = K + 1
      <4>1. u \notin Commenters
        BY <2>6 DEF Commenters
      <4>2. Cardinality(Commenters \cup {u}) = K + 1
        BY <4>1, FS_AddElement DEF K, RowsInv, FiniteInv
      <4> QED
        BY <2>2, <2>6, <4>2
    <3>3. \A c \in comments : c.user # Dz => \E k \in 1 .. K : c.name = GetCommenterName(k)
      BY DEF NamesInv, NumbersInv, K
    <3>4. NumbersInv'
      <4>1. 1 .. K \subseteq 1 .. K + 1 /\ K + 1 \in 1 .. K + 1
        BY <2>3
      <4>2. \A c \in comments' :
              c.user # Dz => \E k \in 1 .. K + 1 : c.name = GetCommenterName(k)
        BY <2>1, <3>1, <3>3, <4>1
      <4> QED
        BY <3>2, <4>2 DEF NumbersInv
    <3>5. GetCommenterName(0) = <<>>
      BY Kinds
    <3>6. \A k \in 0 .. K : GetCommenterName(k) # n.name
      BY <2>3, <3>1, NamesDistinct
    <3>7. 0 \in 0 .. K /\ 1 .. K \subseteq 0 .. K
      BY <2>3
    <3>8. n.name # <<>>
      BY <3>5, <3>6, <3>7
    <3>9. \A c \in comments : c.name # n.name
      <4>1. \A c \in comments : c.user = Dz => c.name = <<>>
        BY DEF NamesInv, NamesIdentify
      <4> QED
        BY <3>3, <3>6, <3>7, <3>8, <4>1
    <3>10. NamesIdentify'
      BY <2>1, <2>6, <3>8, <3>9 DEF NamesInv, NamesIdentify
    <3> QED
      BY <3>4, <3>10 DEF NamesInv
  <2> QED
    BY <2>4, <2>5, <2>6
<1> QED
  BY <1>1, <1>2, <1>3, CommentsStep

\* Under a post a name stands for one user and a user has one name (sql.go:207,
\* GenCommenterName; routeApiPOST.go, sendComment), whatever is deleted in between and
\* however many write at once.
THEOREM NamesStandForUsers == Spec => []NamesIdentify
<1>1. Init => NamesInv
  BY DEF Init, NamesInv, NumbersInv, NamesIdentify
<1>2. RowsInv /\ LockInv /\ NamesInv /\ [Next]_vars => NamesInv'
  BY NamesStep
<1>3. NamesInv => NamesIdentify
  BY DEF NamesInv
<1> QED
  BY <1>1, <1>2, <1>3, RowsCorrect, LockCorrect, PTL DEF Spec

-----------------------------------------------------------------------------
Alive == {c \in comments : c.live}

\* Comment.AfterCreate and editAttention keep like_num at the number of watchers.
LEMMA WatchCounts ==
    ASSUME RowsInv, NEW u, likeNum = Cardinality(attention)
    PROVE  /\ Watch(u) => likeNum' = Cardinality(attention')
           /\ Unwatch(u) /\ u \in attention => likeNum' = Cardinality(attention')
<1>1. IsFiniteSet(attention)
  BY DEF RowsInv, FiniteInv
<1>2. /\ Cardinality(attention \cup {u}) =
            IF u \in attention THEN Cardinality(attention) ELSE Cardinality(attention) + 1
      /\ u \in attention => Cardinality(attention \ {u}) = Cardinality(attention) - 1
  BY <1>1, FS_AddElement, FS_RemoveElement
<1>3. ASSUME Watch(u) PROVE likeNum' = Cardinality(attention')
  BY <1>2, <1>3 DEF Watch
<1>4. ASSUME Unwatch(u), u \in attention PROVE likeNum' = Cardinality(attention')
  BY <1>2, <1>4 DEF Unwatch
<1> QED
  BY <1>3, <1>4

\* Every step adds to a counter what it adds to the rows.
LEMMA CountersStep ==
    ASSUME RowsInv, CountersMatch, [Next]_vars
    PROVE  CountersMatch'
<1> DEFINE P == likeNum' = Cardinality(attention') /\ replyNum' + drift' = Cardinality(Alive')
<1>1. /\ likeNum = Cardinality(attention) /\ replyNum + drift = Cardinality(Alive)
      /\ replyNum \in Int /\ drift \in Nat
  BY DEF CountersMatch, Alive, RowsInv, TypeOK
<1>2. IsFiniteSet(Alive)
  <2>1. Alive \in SUBSET comments
    BY DEF Alive
  <2> QED
    BY <2>1, FS_Subset DEF RowsInv, FiniteInv
<1>3. ASSUME comments' = comments, UNCHANGED <<attention, likeNum, replyNum, drift>>
      PROVE  P
  BY <1>1, <1>3 DEF Alive
<1>4. ASSUME NEW h \in Handler, NEW q \in Request, Arrive(h, q) PROVE P
  BY <1>3, <1>4 DEF Arrive, post
<1>5. ASSUME NEW h \in Handler, Lock(h) PROVE P
  BY <1>3, <1>5 DEF Lock, post
<1>6. ASSUME NEW h \in Handler, NotFound(h) PROVE P
  BY <1>3, <1>6 DEF NotFound, post
<1>7. ASSUME NEW h \in Handler, RollBack(h) PROVE P
  BY <1>3, <1>7 DEF RollBack, Commit, post
<1>8. ASSUME NEW h \in Handler, CommitComment(h) PROVE P
  <2> DEFINE n == [id |-> lastId + 1, user |-> req[h].user, name |-> name[h], live |-> TRUE]
  <2>1. comments' = comments \cup {n} /\ Watch(req[h].user) /\ replyNum' = replyNum + 1
    BY <1>8 DEF CommitComment
  <2>8. drift' = drift
    BY <1>8 DEF CommitComment, Commit
  <2>2. n \notin comments
    <3>1. \A c \in comments : c.id < lastId + 1
      BY <1>8, CommentEffect
    <3>2. n.id = lastId + 1 /\ lastId \in Nat
      BY DEF RowsInv, TypeOK
    <3> HIDE DEF n
    <3> QED
      BY <3>1, <3>2
  <2>3. n.live
    OBVIOUS
  <2> HIDE DEF n
  <2>4. Alive' = Alive \cup {n} /\ n \notin Alive
    BY <2>1, <2>2, <2>3 DEF Alive
  <2>5. Cardinality(Alive \cup {n}) = Cardinality(Alive) + 1
    BY <1>2, <2>4, FS_AddElement
  <2>6. likeNum' = Cardinality(attention')
    BY <1>1, <2>1, WatchCounts
  <2>7. replyNum' + drift' = Cardinality(Alive')
    BY <1>1, <2>1, <2>4, <2>5, <2>8
  <2> QED
    BY <2>6, <2>7
<1>9. ASSUME NEW h \in Handler, CommitWatch(h) PROVE P
  <2>1. likeNum' = Cardinality(attention')
    BY <1>1, <1>9, WatchCounts DEF CommitWatch
  <2> QED
    BY <1>1, <1>9, <2>1 DEF CommitWatch, Commit, Alive
<1>10. ASSUME NEW h \in Handler, CommitUnwatch(h) PROVE P
  <2>1. likeNum' = Cardinality(attention')
    <3>1. CASE req[h].user \in attention
      BY <1>1, <1>10, <3>1, WatchCounts DEF CommitUnwatch
    <3>2. CASE req[h].user \notin attention
      BY <1>1, <1>10, <3>2 DEF CommitUnwatch
    <3> QED
      BY <3>1, <3>2
  <2> QED
    BY <1>1, <1>10, <2>1 DEF CommitUnwatch, Commit, Alive
<1>11. ASSUME NEW h \in Handler, CommitVote(h) PROVE P
  BY <1>3, <1>11 DEF CommitVote, Commit
<1>12. ASSUME NEW c \in comments, DeleteComment(c) PROVE P
  <2>1. /\ comments' = (comments \ {c}) \cup {[c EXCEPT !.live = FALSE]}
        /\ lastId' = lastId /\ UNCHANGED <<attention, likeNum>>
        /\ replyNum' = replyNum - 1
        /\ drift' = IF c \in Alive THEN drift ELSE drift + 1
    BY <1>12 DEF DeleteComment, SetLive, ByModeration, Alive
  <2>2. Alive' = Alive \ {c}
    BY <2>1, Replaced DEF Alive
  <2>3. Cardinality(Alive \ {c}) =
            IF c \in Alive THEN Cardinality(Alive) - 1 ELSE Cardinality(Alive)
    BY <1>2, FS_RemoveElement
  <2>4. replyNum' + drift' = Cardinality(Alive')
    <3>1. CASE c \in Alive
      BY <1>1, <2>1, <2>2, <2>3, <3>1
    <3>2. CASE c \notin Alive
      BY <1>1, <2>1, <2>2, <2>3, <3>2
    <3> QED
      BY <3>1, <3>2
  <2> QED
    BY <1>1, <2>1, <2>4
<1>13. ASSUME NEW c \in comments, RestoreComment(c) \/ RestoreUncounted(c) PROVE P
  <2> DEFINE n == [c EXCEPT !.live = TRUE]
  <2>1. /\ comments' = (comments \ {c}) \cup {n}
        /\ lastId' = lastId /\ ~c.live /\ UNCHANGED <<attention, likeNum>>
    BY <1>13 DEF RestoreComment, RestoreUncounted, SetLive, ByModeration
  <2>5. replyNum' + drift' = replyNum + drift + 1
    <3>1. CASE RestoreComment(c)
      BY <1>1, <3>1 DEF RestoreComment
    <3>2. CASE RestoreUncounted(c)
      BY <1>1, <3>2 DEF RestoreUncounted
    <3> QED
      BY <1>13, <3>1, <3>2
  <2>2. Alive' = Alive \cup {n}
    BY <2>1, Replaced DEF Alive
  <2>3. n \notin Alive
    <3>1. n.id = c.id /\ n.live
      BY DEF RowsInv, TypeOK, Comment
    <3> HIDE DEF n
    <3> QED
      BY <2>1, <3>1 DEF Alive, RowsInv, IdsInv
  <2> HIDE DEF n
  <2>4. Cardinality(Alive \cup {n}) = Cardinality(Alive) + 1
    BY <1>2, <2>3, FS_AddElement
  <2> QED
    BY <1>1, <2>1, <2>2, <2>4, <2>5
<1>14. ASSUME HidePost PROVE P
  BY <1>3, <1>14 DEF HidePost, post
<1>15. ASSUME UNCHANGED vars PROVE P
  BY <1>3, <1>15 DEF vars
<1>16. P
  BY <1>4, <1>5, <1>6, <1>7, <1>8, <1>9, <1>10, <1>11, <1>12, <1>13, <1>14, <1>15, NextCases
<1> QED
  BY <1>16 DEF CountersMatch, Alive

\* posts.like_num counts the watchers, and posts.reply_num the live comments but for the
\* repeated deletions and uncounted restorations, though hooks.go (Attention and Comment),
\* editAttention and the moderation each add and take away one.
THEOREM CountersCount == Spec => []CountersMatch
<1>1. Init => CountersMatch
  <2> SUFFICES ASSUME Init PROVE CountersMatch
    OBVIOUS
  <2>1. likeNum = 1 /\ attention = {Dz} /\ replyNum = 0 /\ drift = 0
        /\ {c \in comments : c.live} = {}
    BY DEF Init
  <2> QED
    <3>1. Cardinality({Dz}) = 1 /\ Cardinality({}) = 0
      BY FS_EmptySet, FS_Singleton
    <3>2. Cardinality(attention) = 1 /\ Cardinality({c \in comments : c.live}) = 0
      BY <2>1, <3>1
    <3> QED
      BY <2>1, <3>2 DEF CountersMatch
<1>2. RowsInv /\ CountersMatch /\ [Next]_vars => CountersMatch'
  BY CountersStep
<1> QED
  BY <1>1, <1>2, RowsCorrect, PTL DEF Spec

-----------------------------------------------------------------------------
VotesFor(o) == {v \in votes : v.option = o}

\* The counts are written back raised by the vote that is inserted, and no other.
LEMMA VotesStep ==
    ASSUME RowsInv, LockInv, VotesCounted, [Next]_vars
    PROVE  VotesCounted'
<1>1. CASE UNCHANGED <<votes, voteData>>
  BY <1>1 DEF VotesCounted
<1>2. ASSUME NEW h \in Handler, CommitVote(h)
      PROVE  VotesCounted'
  <2> DEFINE v == [user |-> req[h].user, option |-> req[h].option]
  <2>1. CASE HasVoted(req[h].user)
    BY <1>1, <1>2, <2>1 DEF CommitVote
  <2>2. CASE ~HasVoted(req[h].user)
    <3>1. /\ votes' = votes \cup {v}
          /\ voteData' = [voteData EXCEPT ![req[h].option] = @ + 1]
      BY <1>2, <2>2 DEF CommitVote, Commit, LockInv
    <3>2. v \notin votes /\ v.option = req[h].option
      BY <2>2 DEF HasVoted
    <3> HIDE DEF v
    <3> SUFFICES ASSUME NEW o \in Option
                 PROVE  voteData'[o] = Cardinality({w \in votes' : w.option = o})
      BY DEF VotesCounted
    <3>3. voteData[o] = Cardinality(VotesFor(o)) /\ voteData \in [Option -> Nat]
      BY DEF VotesCounted, VotesFor, RowsInv, TypeOK
    <3>4. CASE o = req[h].option
      <4>1. {w \in votes' : w.option = o} = VotesFor(o) \cup {v} /\ v \notin VotesFor(o)
        BY <3>1, <3>2, <3>4 DEF VotesFor
      <4>2. VotesFor(o) \in SUBSET votes
        BY DEF VotesFor
      <4>3. IsFiniteSet(VotesFor(o))
        BY <4>2, FS_Subset DEF RowsInv, FiniteInv
      <4>4. Cardinality(VotesFor(o) \cup {v}) = Cardinality(VotesFor(o)) + 1
        BY <4>1, <4>3, FS_AddElement
      <4>5. voteData'[o] = voteData[o] + 1
        BY <3>1, <3>3, <3>4
      <4> QED
        BY <3>3, <4>1, <4>4, <4>5
    <3>5. CASE o # req[h].option
      <4>1. {w \in votes' : w.option = o} = VotesFor(o)
        BY <3>1, <3>2, <3>5 DEF VotesFor
      <4>2. voteData'[o] = voteData[o]
        BY <3>1, <3>3, <3>5
      <4> QED
        BY <3>3, <4>1, <4>2
    <3> QED
      BY <3>4, <3>5
  <2> QED
    BY <2>1, <2>2
<1>3. ASSUME NEW h \in Handler,
             \/ \E q \in Request : Arrive(h, q)
             \/ Lock(h) \/ NotFound(h) \/ RollBack(h)
             \/ CommitComment(h) \/ CommitWatch(h) \/ CommitUnwatch(h)
      PROVE  UNCHANGED <<votes, voteData>>
  BY <1>3 DEF Arrive, Lock, NotFound, RollBack, CommitComment, CommitWatch, CommitUnwatch, post
<1>4. ASSUME NEW c \in comments,
             DeleteComment(c) \/ RestoreComment(c) \/ RestoreUncounted(c)
      PROVE  UNCHANGED <<votes, voteData>>
  BY <1>4 DEF DeleteComment, RestoreComment, RestoreUncounted, ByModeration
<1>5. CASE HidePost \/ UNCHANGED vars
  BY <1>1, <1>5 DEF HidePost, vars, post
<1> QED
  BY <1>1, <1>2, <1>3, <1>4, <1>5 DEF Next

\* posts.vote_data, which sendVote writes back as a whole (vote.go), loses no vote of
\* the votes table: the row lock keeps what was read true until it is written.
THEOREM NoVoteLost == Spec => []VotesCounted
<1>1. Init => VotesCounted
  <2> SUFFICES ASSUME Init, NEW o \in Option
               PROVE  voteData[o] = Cardinality({v \in votes : v.option = o})
    BY DEF VotesCounted
  <2>1. voteData[o] = 0 /\ {v \in votes : v.option = o} = {}
    BY DEF Init, Nothing
  <2> QED
    BY <2>1, FS_EmptySet
<1>2. RowsInv /\ LockInv /\ VotesCounted /\ [Next]_vars => VotesCounted'
  BY VotesStep
<1> QED
  BY <1>1, <1>2, RowsCorrect, LockCorrect, PTL DEF Spec
=============================================================================
