---------------------------- MODULE ContentProofs ----------------------------
(***************************************************************************)
(* Proofs about what is carried: parameters of messages on their way from  *)
(* script to script, for all tables, defaults and numbers of replies, and  *)
(* files of an archive on their way from folder to folder.                 *)
(***************************************************************************)
EXTENDS MessageTables, Transfers, SequenceTheorems, TLAPS

-----------------------------------------------------------------------------
(* Paths *)

LEMMA BelowElements ==
  ASSUME NEW prefix \in Seq(Keys), NEW p \in Seq(Keys)
  PROVE  Below(prefix, p) <=>
           Len(p) > Len(prefix) /\ \A i \in 1 .. Len(prefix) : p[i] = prefix[i]
<1>1. Len(prefix) \in Nat /\ Len(p) \in Nat
  OBVIOUS
<1>2. CASE Len(p) > Len(prefix)
  <2>1. \A i \in 1 .. Len(prefix) : p[i] \in Keys
    BY <1>1, <1>2
  <2>2. /\ SubSeq(p, 1, Len(prefix)) \in Seq(Keys)
        /\ Len(SubSeq(p, 1, Len(prefix))) = Len(prefix)
        /\ \A i \in 1 .. Len(prefix) : SubSeq(p, 1, Len(prefix))[i] = p[i]
    BY <1>1, <2>1, SubSeqProperties
  <2> QED
    BY <1>1, <1>2, <2>2, SeqEqual DEF Below
<1> QED
  BY <1>1, <1>2 DEF Below

LEMMA RestElements ==
  ASSUME NEW prefix \in Seq(Keys), NEW p \in Seq(Keys), Len(p) >= Len(prefix)
  PROVE  /\ Rest(prefix, p) \in Seq(Keys)
         /\ Len(Rest(prefix, p)) = Len(p) - Len(prefix)
         /\ \A i \in 1 .. Len(p) - Len(prefix) : Rest(prefix, p)[i] = p[Len(prefix) + i]
<1> DEFINE m == Len(prefix) + 1
           r == Rest(prefix, p)
<1>1. m \in Int /\ Len(p) \in Nat /\ Len(prefix) \in Nat
  OBVIOUS
<1>2. \A i \in m .. Len(p) : p[i] \in Keys
  BY <1>1
<1>3. r = SubSeq(p, m, Len(p))
  BY DEF Rest
<1> HIDE DEF r
<1>4. /\ r \in Seq(Keys)
      /\ Len(r) = IF m <= Len(p) THEN Len(p) - m + 1 ELSE 0
      /\ \A i \in 1 .. Len(p) - m + 1 : r[i] = p[m + i - 1]
  BY <1>1, <1>2, <1>3, SubSeqProperties
<1>5. ASSUME NEW i \in 1 .. Len(p) - Len(prefix)
      PROVE  r[i] = p[Len(prefix) + i]
  <2>1. i \in 1 .. Len(p) - m + 1 /\ m + i - 1 = Len(prefix) + i
    BY <1>1
  <2> QED
    BY <1>4, <2>1
<1> QED
  BY <1>1, <1>4, <1>5 DEF r

LEMMA ConcatRest ==
  ASSUME NEW prefix \in Seq(Keys), NEW r \in Seq(Keys)
  PROVE  /\ prefix \o r \in Seq(Keys)
         /\ Rest(prefix, prefix \o r) = r
         /\ r # <<>> => Below(prefix, prefix \o r)
<1> DEFINE p == prefix \o r
<1>1. /\ p \in Seq(Keys) /\ Len(p) = Len(prefix) + Len(r)
      /\ \A i \in 1 .. Len(prefix) + Len(r) :
           p[i] = IF i <= Len(prefix) THEN prefix[i] ELSE r[i - Len(prefix)]
  BY ConcatProperties
<1>2. Len(prefix) \in Nat /\ Len(r) \in Nat
  OBVIOUS
<1> HIDE DEF p
<1>3. Rest(prefix, p) = r
  <2>1. /\ Len(p) >= Len(prefix) /\ Len(p) - Len(prefix) = Len(r)
    BY <1>1, <1>2
  <2>2. /\ Rest(prefix, p) \in Seq(Keys)
        /\ Len(Rest(prefix, p)) = Len(p) - Len(prefix)
        /\ \A i \in 1 .. Len(p) - Len(prefix) : Rest(prefix, p)[i] = p[Len(prefix) + i]
    BY <1>1, <2>1, RestElements
  <2>3. ASSUME NEW i \in 1 .. Len(r)
        PROVE  p[Len(prefix) + i] = r[i]
    <3>1. /\ Len(prefix) + i \in 1 .. Len(prefix) + Len(r)
          /\ ~(Len(prefix) + i <= Len(prefix)) /\ (Len(prefix) + i) - Len(prefix) = i
      BY <1>2
    <3> QED
      BY <1>1, <3>1
  <2>4. \A i \in 1 .. Len(Rest(prefix, p)) : Rest(prefix, p)[i] = r[i]
    BY <2>1, <2>2, <2>3
  <2> QED
    BY <2>1, <2>2, <2>4, SeqEqual
<1>4. r # <<>> => Len(r) > 0
  BY EmptySeq, <1>2
<1>5. r # <<>> => Below(prefix, p)
  <2>1. \A i \in 1 .. Len(prefix) : p[i] = prefix[i]
    BY <1>1, <1>2
  <2>2. r # <<>> => Len(p) > Len(prefix)
    BY <1>1, <1>2, <1>4
  <2> QED
    BY <1>1, <2>1, <2>2, BelowElements
<1> QED
  BY <1>1, <1>3, <1>5 DEF p

LEMMA BelowRest ==
  ASSUME NEW prefix \in Seq(Keys), NEW p \in Seq(Keys), Below(prefix, p)
  PROVE  IsPath(Rest(prefix, p)) /\ prefix \o Rest(prefix, p) = p
<1>1. /\ Len(p) > Len(prefix) /\ Len(prefix) \in Nat /\ Len(p) \in Nat
      /\ \A i \in 1 .. Len(prefix) : p[i] = prefix[i]
  BY BelowElements
<1> DEFINE r == Rest(prefix, p)
<1>2. /\ r \in Seq(Keys) /\ Len(r) = Len(p) - Len(prefix)
      /\ \A i \in 1 .. Len(p) - Len(prefix) : r[i] = p[Len(prefix) + i]
  BY <1>1, RestElements
<1> HIDE DEF r
<1>3. r # <<>>
  BY <1>1, <1>2, EmptySeq
<1>4. /\ prefix \o r \in Seq(Keys) /\ Len(prefix \o r) = Len(prefix) + Len(r)
      /\ \A i \in 1 .. Len(prefix) + Len(r) :
           (prefix \o r)[i] = IF i <= Len(prefix) THEN prefix[i] ELSE r[i - Len(prefix)]
  BY <1>2, ConcatProperties
<1>5. ASSUME NEW i \in 1 .. Len(p)
      PROVE  (prefix \o r)[i] = p[i]
  <2>1. i \in 1 .. Len(prefix) + Len(r)
    BY <1>1, <1>2
  <2>2. CASE i <= Len(prefix)
    BY <1>1, <1>4, <2>1, <2>2
  <2>3. CASE ~(i <= Len(prefix))
    <3>1. /\ i - Len(prefix) \in 1 .. Len(p) - Len(prefix)
          /\ Len(prefix) + (i - Len(prefix)) = i
      BY <1>1, <2>3
    <3> QED
      BY <1>2, <1>4, <2>1, <2>3, <3>1
  <2> QED
    BY <2>2, <2>3
<1>6. Len(prefix \o r) = Len(p)
  BY <1>1, <1>2, <1>4
<1>7. prefix \o r = p
  BY <1>4, <1>5, <1>6, SeqEqual
<1> QED
  BY <1>2, <1>3, <1>7 DEF IsPath, r

-----------------------------------------------------------------------------
(* Tables *)

LEMMA TextIsValue == \A s : IsValue(Text(s))
BY DEF IsValue, IsPair, IsNumber, Text

LEMMA NotTable ==
  ASSUME NEW v, v[1] # "table"
  PROVE  v # Table
<1>1. Table[1] = "table"
  BY DEF Table
<1> QED
  BY <1>1

LEMMA PrefixOfPair ==
  ASSUME NEW k \in Keys, NEW l \in Keys
  PROVE  /\ {SubSeq(<<k, l>>, 1, n) : n \in 1 .. Len(<<k, l>>) - 1} = {<<k>>}
         /\ IsPath(<<k, l>>) /\ IsPath(<<k>>)
<1> DEFINE s == SubSeq(<<k, l>>, 1, 1)
           t == <<k>>
<1>1. s \in Seq(Keys) /\ Len(s) = 1 /\ s[1] = k
  BY SubSeqProperties
<1>2. t \in Seq(Keys) /\ Len(t) = 1 /\ t[1] = k
  OBVIOUS
<1>3. <<k, l>> \in Seq(Keys) /\ Len(<<k, l>>) = 2
  OBVIOUS
<1>4. 1 .. Len(<<k, l>>) - 1 = {1}
  BY <1>3
<1>5. IsPath(<<k, l>>) /\ IsPath(<<k>>)
  BY <1>2, <1>3 DEF IsPath
<1>6. {SubSeq(<<k, l>>, 1, n) : n \in 1 .. Len(<<k, l>>) - 1} = {s}
  BY <1>4
<1> HIDE DEF s, t
<1>7. \A i \in 1 .. Len(s) : s[i] = t[i]
  BY <1>1, <1>2
<1>8. s = t
  BY <1>1, <1>2, <1>7, SeqEqual
<1> QED
  BY <1>5, <1>6, <1>8 DEF t

LEMMA PutIsTable ==
  ASSUME NEW t, IsTable(t), NEW k \in Keys, NEW l \in Keys, NEW v, IsValue(v)
  PROVE  /\ IsTable(Put(t, <<k, l>>, v))
         /\ Put(t, <<k, l>>, v).data =
              [q \in DOMAIN t.data \cup {<<k, l>>} |-> IF q = <<k, l>> THEN v ELSE t.data[q]]
         /\ Put(t, <<k, l>>, v).subs = t.subs \cup {<<k>>}
BY PrefixOfPair DEF Put, IsTable

LEMMA MergeIsTable ==
  ASSUME NEW t, NEW u, IsTable(t), IsTable(u)
  PROVE  IsTable(Merge(t, u))
BY DEF Merge, IsTable

LEMMA WithoutIsTable ==
  ASSUME NEW t, IsTable(t), NEW prefix
  PROVE  IsTable(Without(t, prefix))
BY DEF Without, IsTable

LEMMA SubTableIsTable ==
  ASSUME NEW t, IsTable(t), NEW prefix \in Seq(Keys)
  PROVE  IsTable(SubTable(t, prefix))
<1> DEFINE D == {Rest(prefix, p) : p \in {d \in DOMAIN t.data : Below(prefix, d)}}
           S == {Rest(prefix, p) : p \in {s \in t.subs : Below(prefix, s)}}
<1>1. ASSUME NEW r \in D
      PROVE  IsPath(r) /\ IsValue(t.data[prefix \o r])
  <2>1. PICK p \in DOMAIN t.data : Below(prefix, p) /\ r = Rest(prefix, p)
    OBVIOUS
  <2>2. p \in Seq(Keys)
    BY DEF IsTable, IsPath
  <2> QED
    BY <2>1, <2>2, BelowRest DEF IsTable
<1>2. ASSUME NEW r \in S
      PROVE  IsPath(r)
  <2>1. PICK p \in t.subs : Below(prefix, p) /\ r = Rest(prefix, p)
    OBVIOUS
  <2>2. p \in Seq(Keys)
    BY DEF IsTable, IsPath
  <2> QED
    BY <2>1, <2>2, BelowRest
<1> HIDE DEF D, S
<1>3. SubTable(t, prefix) = [data |-> [r \in D |-> t.data[prefix \o r]], subs |-> S]
  BY DEF SubTable, D, S
<1> QED
  BY <1>1, <1>2, <1>3 DEF IsTable

-----------------------------------------------------------------------------
(* Conversion *)

LEMMA StringPaths ==
  ASSUME NEW n \in Seq(Keys)
  PROVE  /\ Strings(n) \in Seq(LuaKeys) /\ Len(Strings(n)) = Len(n)
         /\ \A i \in 1 .. Len(n) : Strings(n)[i] = [kind |-> "string", content |-> n[i]]
         /\ Contents(Strings(n)) = n
         /\ n # <<>> => Strings(n) # <<>>
<1> DEFINE s == Strings(n)
<1>1. n \in [1 .. Len(n) -> Keys] /\ Len(n) \in Nat
  OBVIOUS
<1>2. s = [i \in 1 .. Len(n) |-> [kind |-> "string", content |-> n[i]]]
  BY <1>1 DEF Strings
<1> HIDE DEF s
<1>3. \A i \in 1 .. Len(n) : s[i] = [kind |-> "string", content |-> n[i]] /\ s[i] \in LuaKeys
  BY <1>1, <1>2 DEF LuaKeys
<1>4. s \in [1 .. Len(n) -> LuaKeys]
  BY <1>2, <1>3
<1>5. s \in Seq(LuaKeys) /\ Len(s) = Len(n)
  BY <1>1, <1>4, SeqDef, LenProperties
<1>6. Contents(s) = [i \in 1 .. Len(n) |-> n[i]]
  BY <1>2, <1>3 DEF Contents
<1>7. [i \in 1 .. Len(n) |-> n[i]] = n
  BY <1>1
<1>8. n # <<>> => s # <<>>
  BY <1>1, <1>5, EmptySeq
<1> QED
  BY <1>3, <1>5, <1>6, <1>7, <1>8 DEF s

LEMMA KeyIsKey ==
  ASSUME NEW k \in LuaKeys
  PROVE  Key(k) \in Keys
<1>1. CASE k.kind = "number"
  BY <1>1, TableAssumption DEF LuaKeys, Key
<1>2. CASE k.kind = "boolean"
  BY <1>2, TableAssumption DEF LuaKeys, Key
<1>3. CASE k.kind = "string" \/ k.kind = "integer"
  BY <1>3, TableAssumption DEF LuaKeys, Key
<1> QED
  BY <1>1, <1>2, <1>3 DEF LuaKeys

LEMMA NamesAreKeys ==
  ASSUME NEW p \in Seq(LuaKeys)
  PROVE  /\ Names(p) \in Seq(Keys) /\ Len(Names(p)) = Len(p)
         /\ \A i \in 1 .. Len(p) : Names(p)[i] = Key(p[i])
         /\ p # <<>> => IsPath(Names(p))
<1> DEFINE s == Names(p)
<1>1. p \in [1 .. Len(p) -> LuaKeys] /\ Len(p) \in Nat
  OBVIOUS
<1>2. s = [i \in 1 .. Len(p) |-> Key(p[i])]
  BY <1>1 DEF Names
<1> HIDE DEF s
<1>3. s \in [1 .. Len(p) -> Keys]
  BY <1>1, <1>2, KeyIsKey
<1>4. s \in Seq(Keys) /\ Len(s) = Len(p)
  BY <1>1, <1>3, SeqDef, LenProperties
<1>5. p # <<>> => s # <<>>
  BY <1>1, <1>4, EmptySeq
<1> QED
  BY <1>2, <1>4, <1>5 DEF s, IsPath

LEMMA ConvertedValue ==
  ASSUME NEW v, IsPair(v), IsNumber(v), v[1] # "table"
  PROVE  IsValue(ToValue(v))
<1>1. CASE v[1] = "string" /\ v[2] \in Addresses
  BY <1>1 DEF ToValue, IsValue, IsPair, IsNumber
<1>2. CASE v[1] = "string" /\ v[2] \in DOMAIN Numerals \ Addresses
  BY <1>2, TableAssumption DEF ToValue, IsValue, IsPair, IsNumber
<1>3. CASE v[1] = "string" /\ v[2] \notin DOMAIN Numerals
  BY <1>3, TableAssumption DEF ToValue, IsValue, IsPair, IsNumber
<1>4. CASE v[1] = "number"
  <2>1. ToValue(v) = <<"number", Rounded[v[2]]>> /\ v[2] \in Numbers
    BY <1>4 DEF ToValue, IsNumber
  <2>2. Rounded[v[2]] \in Numbers
    BY <2>1, TableAssumption
  <2> QED
    BY <2>1, <2>2 DEF IsValue, IsPair, IsNumber
<1>5. CASE v[1] \notin {"string", "number"}
  BY <1>5 DEF ToValue, IsValue
<1> QED
  BY <1>1, <1>2, <1>3, <1>4, <1>5

LEMMA ConvertedIsTable ==
  ASSUME NEW lua, IsLua(lua), NEW t \in LuaToTable(lua)
  PROVE  IsTable(t)
<1>1. PICK W \in Winners(lua) : t = Converted(lua, W)
  BY DEF LuaToTable
<1> DEFINE kept == Kept(lua, W)
           values == {p \in kept : lua[p] # Table}
           named(n) == CHOOSE p \in values : Names(p) = n
           D == {Names(p) : p \in values}
           S == {Names(p) : p \in kept \ values}
<1>2. t = [data |-> [n \in D |-> ToValue(lua[named(n)])], subs |-> S]
  BY <1>1 DEF Converted
<1>3. kept \subseteq DOMAIN lua
  BY DEF Kept
<1>4. ASSUME NEW p \in kept
      PROVE  IsPath(Names(p))
  BY <1>3, NamesAreKeys DEF IsLua, IsLuaPath
<1>5. ASSUME NEW n \in D
      PROVE  IsPath(n) /\ IsValue(ToValue(lua[named(n)]))
  <2>1. \E p \in values : Names(p) = n
    OBVIOUS
  <2>2. named(n) \in values
    BY <2>1
  <2>3. PICK p \in values : p = named(n)
    BY <2>2
  <2>4. /\ p \in DOMAIN lua /\ lua[p] # Table
    BY <1>3, <2>3
  <2>5. IsPair(lua[p]) /\ IsNumber(lua[p]) /\ lua[p][1] # "table"
    BY <2>4 DEF IsLua
  <2> QED
    BY <1>4, <2>1, <2>3, <2>5, ConvertedValue
<1>6. \A n \in S : IsPath(n)
  BY <1>4
<1> HIDE DEF D, S
<1> QED
  BY <1>2, <1>5, <1>6 DEF IsTable

\* What is at a path of a table, as the function that gets it sees it.
Holds(t, n, v) ==
    IF v = Table THEN n \in t.subs
    ELSE n \in DOMAIN t.data \ t.subs /\ t.data[n] = ToValue(v)

\* Entries of the same table with the same key have the same names.
LEMMA TwinsShareNames ==
  ASSUME NEW lua, NEW p \in DOMAIN lua, NEW q \in Twins(lua, p),
         p \in Seq(LuaKeys), q \in Seq(LuaKeys), p # <<>>
  PROVE  Names(q) = Names(p)
<1>1. /\ Len(q) = Len(p) /\ Parent(q) = Parent(p)
      /\ Key(q[Len(q)]) = Key(p[Len(p)])
  BY DEF Twins
<1>2. Len(p) \in Nat \ {0}
  BY EmptySeq
<1>3. ASSUME NEW r \in {p, q}, NEW i \in 1 .. Len(p) - 1
      PROVE  Parent(r)[i] = r[i]
  <2>1. \A j \in 1 .. Len(r) - 1 : r[j] \in LuaKeys
    BY <1>1, <1>2
  <2> QED
    BY <1>1, <1>2, <2>1, SubSeqProperties DEF Parent
<1>4. \A i \in 1 .. Len(p) : Key(q[i]) = Key(p[i])
  BY <1>1, <1>2, <1>3
<1>5. /\ Names(p) \in Seq(Keys) /\ Len(Names(p)) = Len(p)
      /\ \A i \in 1 .. Len(p) : Names(p)[i] = Key(p[i])
  BY NamesAreKeys
<1>6. /\ Names(q) \in Seq(Keys) /\ Len(Names(q)) = Len(q)
      /\ \A i \in 1 .. Len(q) : Names(q)[i] = Key(q[i])
  BY NamesAreKeys
<1> QED
  BY <1>1, <1>4, <1>5, <1>6, SeqEqual

LEMMA PlainPath ==
  ASSUME NEW lua, IsLua(lua), NEW p \in DOMAIN lua, Plain(lua, p)
  PROVE  /\ Names(p) = Contents(p) /\ Strings(Contents(p)) = p
         /\ IsPath(Contents(p))
<1>2. p \in Seq(LuaKeys) /\ p # <<>> /\ Len(p) \in Nat \ {0}
  BY EmptySeq DEF IsLua, IsLuaPath
<1>3. \A i \in 1 .. Len(p) : /\ p[i] = [kind |-> "string", content |-> p[i].content]
                             /\ Key(p[i]) = p[i].content
  <2> SUFFICES ASSUME NEW i \in 1 .. Len(p)
               PROVE  /\ p[i] = [kind |-> "string", content |-> p[i].content]
                      /\ Key(p[i]) = p[i].content
    OBVIOUS
  <2>1. p[i] \in LuaKeys
    BY <1>2
  <2>2. p[i].kind = "string" /\ p[i].content \notin DOMAIN Numerals
    BY DEF Plain, PlainKey
  <2> QED
    BY <2>1, <2>2 DEF LuaKeys, Key
<1>4. DOMAIN p = 1 .. Len(p) /\ p = [i \in 1 .. Len(p) |-> p[i]]
  BY <1>2
<1>5. Names(p) = Contents(p)
  BY <1>3, <1>4 DEF Names, Contents
<1>6. Strings(Contents(p)) = p
  <2>1. Strings(Contents(p)) = [i \in 1 .. Len(p) |-> [kind |-> "string", content |-> p[i].content]]
    BY <1>4 DEF Strings, Contents
  <2> QED
    BY <1>3, <1>4, <2>1
<1>7. IsPath(Contents(p))
  BY <1>2, <1>5, NamesAreKeys
<1> QED
  BY <1>5, <1>6, <1>7

\* A plain entry is kept with its own name, whatever becomes of the others.
LEMMA PlainKept ==
  ASSUME NEW lua, IsLua(lua), NEW t \in LuaToTable(lua), NEW p \in DOMAIN lua, Plain(lua, p)
  PROVE  IsPath(Contents(p)) /\ Holds(t, Contents(p), lua[p])
<1>1. PICK W \in Winners(lua) : t = Converted(lua, W)
  BY DEF LuaToTable
<1>2. p \in Seq(LuaKeys) /\ p # <<>> /\ Len(p) \in Nat \ {0}
  BY EmptySeq DEF IsLua, IsLuaPath
<1>3. Names(p) = Contents(p) /\ IsPath(Contents(p))
  BY PlainPath
<1>8. ASSUME NEW q \in DOMAIN lua, Names(q) = Names(p)
      PROVE  q = p
  <2>1. Names(q) = Names(SubSeq(p, 1, Len(p))) => q = SubSeq(p, 1, Len(p))
    BY <1>2 DEF Plain
  <2>2. SubSeq(p, 1, Len(p)) = p
    BY <1>2, SubSeqFull
  <2> QED
    BY <1>8, <2>1, <2>2
<1>9. p \in Kept(lua, W)
  <2> SUFFICES ASSUME NEW n \in 1 .. Len(p)
               PROVE  SubSeq(p, 1, n) \notin Contested(lua)
    BY DEF Kept
  <2> DEFINE s == SubSeq(p, 1, n)
  <2>1. \A i \in 1 .. n : p[i] \in LuaKeys
    BY <1>2
  <2>2. s \in Seq(LuaKeys) /\ Len(s) = n /\ s # <<>>
    <3>1. s \in Seq(LuaKeys) /\ Len(s) = n
      BY <1>2, <2>1, SubSeqProperties
    <3> QED
      BY <3>1, EmptySeq
  <2>3. \A q \in DOMAIN lua : Names(q) = Names(s) => q = s
    BY DEF Plain
  <2> HIDE DEF s
  <2>4. ASSUME s \in DOMAIN lua
        PROVE  Rivals(lua, s) = {s}
    <3>1. ASSUME NEW q \in Rivals(lua, s)
          PROVE  q = s
      <4>1. q \in DOMAIN lua /\ q \in Twins(lua, s)
        BY DEF Rivals, Twins
      <4>2. q \in Seq(LuaKeys)
        BY <4>1 DEF IsLua, IsLuaPath
      <4> QED
        BY <2>2, <2>3, <2>4, <4>1, <4>2, TwinsShareNames
    <3>2. s \in Rivals(lua, s)
      BY <2>4 DEF Rivals, Twins
    <3> QED
      BY <3>1, <3>2
  <2> QED
    BY <2>4 DEF Contested, s
<1> DEFINE kept == Kept(lua, W)
           values == {q \in kept : lua[q] # Table}
           named(n) == CHOOSE q \in values : Names(q) = n
           n0 == Names(p)
<1>10. t = [data |-> [n \in {Names(q) : q \in values} |-> ToValue(lua[named(n)])],
            subs |-> {Names(q) : q \in kept \ values}]
  BY <1>1 DEF Converted
<1>11. kept \subseteq DOMAIN lua /\ p \in kept
  BY <1>9 DEF Kept
<1> HIDE DEF kept
<1>12. CASE lua[p] = Table
  <2>1. n0 \in t.subs
    BY <1>10, <1>11, <1>12
  <2> QED
    BY <1>3, <1>12, <2>1 DEF Holds
<1>13. CASE lua[p] # Table
  <2>1. p \in values /\ \A q \in values : Names(q) = n0 => q = p
    BY <1>8, <1>11, <1>13
  <2>2. named(n0) = p
    BY <2>1
  <2>3. n0 \notin t.subs
    BY <1>8, <1>10, <1>11, <1>13
  <2>4. n0 \in DOMAIN t.data /\ t.data[n0] = ToValue(lua[p])
    BY <1>10, <2>1, <2>2
  <2> QED
    BY <1>3, <1>13, <2>3, <2>4 DEF Holds
<1> QED
  BY <1>12, <1>13

LEMMA PlainPushed ==
  ASSUME NEW v, IsPair(v), v[1] # "pointer", PlainValue(v)
  PROVE  PushValue(ToValue(v)) = v
<1>1. CASE v[1] = "string" /\ v[2] \in Addresses
  BY <1>1 DEF ToValue, PushValue, Text, IsPair
<1>2. CASE v[1] = "string" /\ v[2] \notin DOMAIN Numerals
  BY <1>2, TableAssumption DEF ToValue, PushValue, IsPair
<1>3. CASE v[1] = "number"
  BY <1>3 DEF ToValue, PushValue, PlainValue, IsPair
<1>4. CASE v[1] \notin {"string", "number"}
  BY <1>4 DEF ToValue, PushValue
<1> QED
  BY <1>1, <1>2, <1>3, <1>4 DEF PlainValue

LEMMA HeldIsPushed ==
  ASSUME NEW t, IsTable(t), NEW lua, IsLua(lua), NEW p \in DOMAIN lua, PlainValue(lua[p]),
         Strings(Contents(p)) = p, IsPath(Contents(p)), Holds(t, Contents(p), lua[p])
  PROVE  p \in DOMAIN PushTable(t) /\ PushTable(t)[p] = lua[p]
<1> DEFINE n == Contents(p)
           u == PushTable(t)
<1>1. n \in DOMAIN t.data \cup t.subs
  BY DEF Holds
<1>2. u = [r \in {Strings(m) : m \in DOMAIN t.data \cup t.subs} |->
             IF Contents(r) \in t.subs THEN Table ELSE PushValue(t.data[Contents(r)])]
  BY DEF PushTable
<1> HIDE DEF u
<1>3. /\ p \in DOMAIN u
      /\ u[p] = IF n \in t.subs THEN Table ELSE PushValue(t.data[n])
  BY <1>1, <1>2
<1>4. CASE lua[p] = Table
  BY <1>3, <1>4 DEF Holds, u
<1>5. CASE lua[p] # Table
  <2>1. n \notin t.subs /\ t.data[n] = ToValue(lua[p])
    BY <1>5 DEF Holds
  <2>2. PushValue(ToValue(lua[p])) = lua[p]
    BY PlainPushed DEF IsLua
  <2> QED
    BY <1>3, <2>1, <2>2 DEF u
<1> QED
  BY <1>4, <1>5

\* Of a settled table, conversion to Lua and back loses nothing.
LEMMA SettledBack ==
  ASSUME NEW v, IsValue(v), SettledValue(v)
  PROVE  PushValue(v) # Table /\ ToValue(PushValue(v)) = v
<1>1. CASE v[1] = "pointer"
  <2>1. PushValue(v) = <<"string", v[2]>> /\ v = <<"pointer", v[2]>>
    BY <1>1 DEF PushValue, Text, IsValue, IsPair
  <2>2. v[2] \in Addresses
    BY <1>1 DEF SettledValue
  <2>3. ToValue(<<"string", v[2]>>) = <<"pointer", v[2]>>
    BY <2>2 DEF ToValue
  <2>4. <<"string", v[2]>> # Table
    BY DEF Table
  <2> QED
    BY <2>1, <2>3, <2>4
<1>2. CASE v[1] # "pointer"
  <2>1. PushValue(v) = v
    BY <1>2 DEF PushValue
  <2>2. ASSUME v[1] = "string"
        PROVE  ToValue(v) = v
    <3>1. v[2] \notin DOMAIN Numerals
      BY <2>2 DEF SettledValue
    <3>2. Addresses \subseteq DOMAIN Numerals
      BY TableAssumption
    <3>3. v[2] \notin Addresses /\ v[2] \notin DOMAIN Numerals \ Addresses
      BY <3>1, <3>2
    <3> QED
      BY <2>2, <3>3 DEF ToValue
  <2>3. ASSUME v[1] = "number"
        PROVE  ToValue(v) = v
    BY <2>3 DEF ToValue, SettledValue, IsValue, IsPair
  <2>4. ASSUME v[1] \notin {"string", "number"}
        PROVE  ToValue(v) = v
    BY <2>4 DEF ToValue
  <2>5. v # Table
    BY NotTable DEF IsValue
  <2> QED
    BY <2>1, <2>2, <2>3, <2>4, <2>5
<1> QED
  BY <1>1, <1>2

LEMMA RoundTrip ==
  ASSUME NEW t, IsTable(t), Settled(t)
  PROVE  LuaToTable(PushTable(t)) = {t}
<1> DEFINE lua == PushTable(t)
           all == DOMAIN t.data \cup t.subs
<1>1. \A n \in all : n \in Seq(Keys) /\ n # <<>>
  BY DEF IsTable, IsPath
<1>2. lua = [p \in {Strings(n) : n \in all} |->
               IF Contents(p) \in t.subs THEN Table ELSE PushValue(t.data[Contents(p)])]
  BY DEF PushTable
<1> HIDE DEF lua
<1>3. ASSUME NEW n \in all
      PROVE  /\ Strings(n) \in DOMAIN lua /\ Names(Strings(n)) = n
             /\ Strings(n) \in Seq(LuaKeys) /\ Strings(n) # <<>>
             /\ lua[Strings(n)] = IF n \in t.subs THEN Table ELSE PushValue(t.data[n])
  <2>1. Contents(Strings(n)) = n /\ Strings(n) \in Seq(LuaKeys) /\ Strings(n) # <<>>
    BY <1>1, StringPaths
  <2>2. Names(Strings(n)) = n
    BY DEF Settled, Stable
  <2> QED
    BY <1>2, <2>1, <2>2
<1>4. \A p \in DOMAIN lua : \E n \in all : p = Strings(n)
  BY <1>2
<1>5. ASSUME NEW p \in DOMAIN lua, NEW q \in DOMAIN lua, Names(p) = Names(q)
      PROVE  p = q
  BY <1>3, <1>4, <1>5
<1>6. ASSUME NEW p \in DOMAIN lua
      PROVE  Rivals(lua, p) = {p}
  <2>1. p \in Seq(LuaKeys) /\ p # <<>>
    BY <1>3, <1>4
  <2>2. ASSUME NEW q \in Rivals(lua, p)
        PROVE  q = p
    <3>1. q \in DOMAIN lua /\ q \in Twins(lua, p)
      BY DEF Rivals, Twins
    <3>2. q \in Seq(LuaKeys)
      BY <1>3, <1>4, <3>1
    <3>3. Names(q) = Names(p)
      BY <2>1, <3>1, <3>2, TwinsShareNames
    <3> QED
      BY <1>5, <3>1, <3>3
  <2>3. p \in Rivals(lua, p)
    BY DEF Rivals, Twins
  <2> QED
    BY <2>2, <2>3
<1>7. Contested(lua) = {}
  BY <1>6 DEF Contested
<1>8. Winners(lua) = {{}}
  BY <1>7 DEF Winners
<1>9. Kept(lua, {}) = DOMAIN lua
  BY <1>7 DEF Kept
<1> DEFINE values == {p \in DOMAIN lua : lua[p] # Table}
           named(n) == CHOOSE p \in values : Names(p) = n
<1>10. ASSUME NEW n \in DOMAIN t.data
       PROVE  /\ Strings(n) \in values /\ Names(Strings(n)) = n
              /\ ToValue(lua[Strings(n)]) = t.data[n]
  <2>1. n \notin t.subs /\ IsValue(t.data[n]) /\ SettledValue(t.data[n])
    BY DEF Settled, IsTable
  <2>2. PushValue(t.data[n]) # Table /\ ToValue(PushValue(t.data[n])) = t.data[n]
    BY <2>1, SettledBack
  <2> QED
    BY <1>3, <2>1, <2>2
<1>11. \A p \in values : \E n \in DOMAIN t.data : p = Strings(n)
  BY <1>3, <1>4
<1>12. {Names(p) : p \in values} = DOMAIN t.data
  BY <1>10, <1>11
<1>13. ASSUME NEW n \in DOMAIN t.data
       PROVE  ToValue(lua[named(n)]) = t.data[n]
  <2>1. Strings(n) \in values /\ \A p \in values : Names(p) = n => p = Strings(n)
    BY <1>5, <1>10
  <2>2. Names(Strings(n)) = n
    BY <1>10
  <2>3. named(n) = Strings(n)
    BY <2>1, <2>2
  <2> QED
    BY <1>10, <2>3
<1>14. ASSUME NEW n \in t.subs
       PROVE  /\ Strings(n) \in DOMAIN lua \ values /\ Names(Strings(n)) = n
  BY <1>3
<1>15. \A p \in DOMAIN lua \ values : \E n \in t.subs : p = Strings(n)
  BY <1>4, <1>10
<1>16. {Names(p) : p \in DOMAIN lua \ values} = t.subs
  BY <1>14, <1>15
<1>17. Converted(lua, {}) =
         [data |-> [n \in {Names(p) : p \in values} |-> ToValue(lua[named(n)])],
          subs |-> {Names(p) : p \in DOMAIN lua \ values}]
  BY <1>9 DEF Converted
<1> HIDE DEF values, named
<1>18. [n \in {Names(p) : p \in values} |-> ToValue(lua[named(n)])]
         = [n \in DOMAIN t.data |-> t.data[n]]
  BY <1>12, <1>13
<1>19. Converted(lua, {}) = t
  BY <1>16, <1>17, <1>18 DEF IsTable
<1> QED
  BY <1>8, <1>19 DEF LuaToTable, lua

\* What has become a string stays the same string.
LEMMA KeysStay ==
  ASSUME NEW k \in Keys
  PROVE  LET l == Key([kind |-> "string", content |-> k]) IN
         l \in Keys /\ Key([kind |-> "string", content |-> l]) = l
<1> DEFINE l == Key([kind |-> "string", content |-> k])
<1>1. CASE k \in DOMAIN Numerals
  <2>1. Numerals[k] \in Numbers /\ l = Spelled[Numerals[k]]
    BY <1>1, TableAssumption DEF Key
  <2>2. l \in Keys /\ (l \in DOMAIN Numerals => Spelled[Numerals[l]] = l)
    BY <2>1, TableAssumption
  <2> QED
    BY <2>2 DEF Key
<1>2. CASE k \notin DOMAIN Numerals
  BY <1>2 DEF Key
<1> QED
  BY <1>1, <1>2

LEMMA PushedIsStable ==
  ASSUME NEW c, IsTable(c), NEW t \in LuaToTable(PushTable(c))
  PROVE  Stable(t)
<1> DEFINE lua == PushTable(c)
<1>1. PICK W \in Winners(lua) : t = Converted(lua, W)
  BY DEF LuaToTable
<1>2. ASSUME NEW n \in Seq(Keys)
      PROVE  Names(Strings(Names(Strings(n)))) = Names(Strings(n))
  <2> DEFINE s == Strings(n)
             m == Names(s)
             r == Strings(m)
  <2>1. /\ s \in Seq(LuaKeys) /\ Len(s) = Len(n)
        /\ \A i \in 1 .. Len(n) : s[i] = [kind |-> "string", content |-> n[i]]
    BY StringPaths
  <2> HIDE DEF s
  <2>2. /\ m \in Seq(Keys) /\ Len(m) = Len(n)
        /\ \A i \in 1 .. Len(n) : m[i] = Key(s[i])
    BY <2>1, NamesAreKeys
  <2> HIDE DEF m
  <2>3. /\ r \in Seq(LuaKeys) /\ Len(r) = Len(n)
        /\ \A i \in 1 .. Len(n) : r[i] = [kind |-> "string", content |-> m[i]]
    BY <2>2, StringPaths
  <2> HIDE DEF r
  <2>4. /\ Names(r) \in Seq(Keys) /\ Len(Names(r)) = Len(n)
        /\ \A i \in 1 .. Len(n) : Names(r)[i] = Key(r[i])
    BY <2>3, NamesAreKeys
  <2>5. ASSUME NEW i \in 1 .. Len(n)
        PROVE  Names(r)[i] = m[i]
    <3>1. n[i] \in Keys
      BY ElementOfSeq
    <3>2. m[i] = Key([kind |-> "string", content |-> n[i]])
      BY <2>1, <2>2
    <3>3. Names(r)[i] = Key([kind |-> "string", content |-> m[i]])
      BY <2>3, <2>4
    <3> QED
      BY <3>1, <3>2, <3>3, KeysStay
  <2>6. Names(r) = m
    BY <2>2, <2>4, <2>5, SeqEqual
  <2> QED
    BY <2>6 DEF r, m, s
<1>3. ASSUME NEW p \in DOMAIN lua
      PROVE  Names(Strings(Names(p))) = Names(p)
  <2>1. PICK n \in DOMAIN c.data \cup c.subs : p = Strings(n)
    BY DEF PushTable
  <2>2. n \in Seq(Keys)
    BY DEF IsTable, IsPath
  <2> QED
    BY <1>2, <2>1, <2>2
<1>4. ASSUME NEW n \in DOMAIN t.data \cup t.subs
      PROVE  \E p \in DOMAIN lua : n = Names(p)
  <2> HIDE DEF lua
  <2> QED
    BY <1>1 DEF Converted, Kept
<1> QED
  BY <1>3, <1>4 DEF Stable

-----------------------------------------------------------------------------
(* The original message *)

LEMMA OriginalPaths ==
  /\ Original \in Seq(Keys) /\ Len(Original) = 2
  /\ <<"original_message">> \in Seq(Keys) /\ Len(<<"original_message">>) = 1
  /\ <<"original_message", "message_name">> \in Seq(Keys) /\ Len(<<"original_message", "message_name">>) = 2
  /\ Below(<<"original_message">>, <<"original_message", "message_name">>)
  /\ \A p \in Seq(Keys) : Below(Original, p) => Below(<<"original_message">>, p)
<1> DEFINE om == <<"original_message">>
           name1 == <<"original_message", "message_name">>
<1>1. /\ Original \in Seq(Keys) /\ Len(Original) = 2 /\ Original[1] = "original_message"
      /\ om \in Seq(Keys) /\ Len(om) = 1 /\ om[1] = "original_message"
      /\ name1 \in Seq(Keys) /\ Len(name1) = 2 /\ name1[1] = "original_message"
  BY TableAssumption DEF Original
<1> HIDE DEF om, name1
<1>2. ASSUME NEW p \in Seq(Keys), Len(p) >= 2, p[1] = "original_message"
      PROVE  Below(om, p)
  <2>1. Len(p) > Len(om) /\ \A i \in 1 .. Len(om) : p[i] = om[i]
    BY <1>1, <1>2
  <2> QED
    BY <1>1, <2>1, BelowElements
<1>3. ASSUME NEW p \in Seq(Keys), Below(Original, p)
      PROVE  Below(om, p)
  <2>1. Len(p) > 2 /\ p[1] = "original_message"
    <3>1. Len(p) > Len(Original) /\ \A i \in 1 .. Len(Original) : p[i] = Original[i]
      BY <1>1, <1>3, BelowElements
    <3> QED
      BY <1>1, <3>1
  <2> QED
    BY <1>2, <2>1
<1>4. Below(om, name1)
  BY <1>1, <1>2
<1> QED
  BY <1>1, <1>3, <1>4 DEF om, name1

\* What is merged changes nothing below a path it has nothing below.
LEMMA MergeElsewhere ==
  ASSUME NEW t, NEW u, IsTable(t), IsTable(u), NEW prefix \in Seq(Keys),
         \A p \in DOMAIN u.data \cup u.subs : ~Below(prefix, p)
  PROVE  SubTable(Merge(t, u), prefix) = SubTable(t, prefix)
<1> DEFINE B == {d \in DOMAIN t.data : Below(prefix, d)}
           D == {Rest(prefix, p) : p \in B}
           m == Merge(t, u)
<1>1. {d \in DOMAIN m.data : Below(prefix, d)} = B
  BY DEF Merge
<1>2. {d \in m.subs : Below(prefix, d)} = {d \in t.subs : Below(prefix, d)}
  BY DEF Merge
<1>3. ASSUME NEW r \in D
      PROVE  m.data[prefix \o r] = t.data[prefix \o r]
  <2>1. PICK p \in B : r = Rest(prefix, p)
    OBVIOUS
  <2>2. prefix \o r = p
    BY <2>1, BelowRest DEF IsTable, IsPath
  <2>3. p \in DOMAIN t.data /\ p \notin DOMAIN u.data
    OBVIOUS
  <2> QED
    BY <2>2, <2>3 DEF Merge
<1> HIDE DEF B, m
<1>4. SubTable(m, prefix) =
        [data |-> [r \in D |-> m.data[prefix \o r]],
         subs |-> {Rest(prefix, p) : p \in {d \in t.subs : Below(prefix, d)}}]
  BY <1>1, <1>2 DEF SubTable
<1>5. SubTable(t, prefix) =
        [data |-> [r \in D |-> t.data[prefix \o r]],
         subs |-> {Rest(prefix, p) : p \in {d \in t.subs : Below(prefix, d)}}]
  BY DEF SubTable, B
<1>6. [r \in D |-> m.data[prefix \o r]] = [r \in D |-> t.data[prefix \o r]]
  BY <1>3
<1> QED
  BY <1>4, <1>5, <1>6 DEF m

LEMMA OriginalKept ==
  ASSUME NEW t, NEW u, IsTable(t), IsTable(u),
         \A p \in DOMAIN u.data \cup u.subs : ~Below(<<"original_message">>, p)
  PROVE  /\ GetOriginalMessageNameOrEmpty(Merge(t, u)) = GetOriginalMessageNameOrEmpty(t)
         /\ GetOriginalMessageParametersOrEmpty(Merge(t, u)) = GetOriginalMessageParametersOrEmpty(t)
<1>1. \A p \in DOMAIN u.data \cup u.subs : ~Below(Original, p)
  BY OriginalPaths DEF IsTable, IsPath
<1>2. <<"original_message", "message_name">> \notin DOMAIN u.data
  BY OriginalPaths
<1>3. GetOriginalMessageNameOrEmpty(Merge(t, u)) = GetOriginalMessageNameOrEmpty(t)
  BY <1>2 DEF GetOriginalMessageNameOrEmpty, OrEmpty, Merge
<1> QED
  BY <1>1, <1>3, OriginalPaths, MergeElsewhere DEF GetOriginalMessageParametersOrEmpty

LEMMA MovedBelow ==
  ASSUME NEW t, IsTable(t)
  PROVE  LET m == Move(t, Original) IN
         /\ IsTable(m) /\ SubTable(m, Original) = t
         /\ <<"original_message", "message_name">> \notin DOMAIN m.data
<1> DEFINE m == Move(t, Original)
           D == {Original \o d : d \in DOMAIN t.data}
           P == {SubSeq(Original, 1, n) : n \in 1 .. Len(Original)}
<1>1. ASSUME NEW d, IsPath(d)
      PROVE  /\ IsPath(Original \o d) /\ Rest(Original, Original \o d) = d
             /\ Below(Original, Original \o d)
  <2>1. d \in Seq(Keys) /\ d # <<>>
    BY <1>1 DEF IsPath
  <2>2. /\ Original \o d \in Seq(Keys) /\ Rest(Original, Original \o d) = d
        /\ Below(Original, Original \o d)
    BY <2>1, ConcatRest, OriginalPaths
  <2>3. Original \o d # <<>>
    BY <2>2, OriginalPaths, EmptySeq DEF Below
  <2> QED
    BY <2>2, <2>3 DEF IsPath
<1>2. ASSUME NEW p \in P
      PROVE  IsPath(p) /\ ~Below(Original, p)
  <2>1. PICK n \in 1 .. 2 : p = SubSeq(Original, 1, n)
    BY OriginalPaths
  <2>2. \A i \in 1 .. n : Original[i] \in Keys
    BY OriginalPaths
  <2>3. p \in Seq(Keys) /\ Len(p) = n
    BY <2>1, <2>2, SubSeqProperties
  <2>4. p # <<>> /\ ~(Len(p) > Len(Original))
    BY <2>3, EmptySeq, OriginalPaths
  <2> QED
    BY <2>3, <2>4 DEF IsPath, Below
<1> HIDE DEF D, P
<1>3. m = [data |-> [p \in D |-> t.data[Rest(Original, p)]],
           subs |-> {Original \o s : s \in t.subs} \cup P]
  BY DEF Move, D, P
<1>4. ASSUME NEW p \in D
      PROVE  IsPath(p) /\ Below(Original, p) /\ IsValue(t.data[Rest(Original, p)])
  BY <1>1 DEF D, IsTable
<1>5. \A s \in t.subs : IsPath(Original \o s)
  BY <1>1 DEF IsTable
<1> HIDE DEF m
<1>6. IsTable(m)
  BY <1>2, <1>3, <1>4, <1>5 DEF IsTable
<1>7. {Rest(Original, p) : p \in {d \in DOMAIN m.data : Below(Original, d)}} = DOMAIN t.data
  <2>1. {d \in DOMAIN m.data : Below(Original, d)} = D
    BY <1>3, <1>4
  <2>2. {Rest(Original, p) : p \in D} = DOMAIN t.data
    BY <1>1 DEF D, IsTable
  <2> QED
    BY <2>1, <2>2
<1>8. {Rest(Original, p) : p \in {s \in m.subs : Below(Original, s)}} = t.subs
  BY <1>1, <1>2, <1>3 DEF IsTable
<1>9. \A d \in DOMAIN t.data : m.data[Original \o d] = t.data[d]
  BY <1>1, <1>3 DEF D, IsTable
<1>10. SubTable(m, Original) = [data |-> [d \in DOMAIN t.data |-> t.data[d]], subs |-> t.subs]
  BY <1>7, <1>8, <1>9 DEF SubTable
<1>11. ~Below(Original, <<"original_message", "message_name">>)
  BY OriginalPaths DEF Below
<1>12. SubTable(m, Original) = t
  BY <1>10 DEF IsTable
<1>13. <<"original_message", "message_name">> \notin DOMAIN m.data
  BY <1>3, <1>4, <1>11
<1> QED
  BY <1>6, <1>12, <1>13 DEF m

\* Below a path where there is nothing, there is afterwards what was merged.
LEMMA MergeBelow ==
  ASSUME NEW t, NEW u, IsTable(t), IsTable(u), NEW prefix \in Seq(Keys),
         \A p \in DOMAIN t.data \cup t.subs : ~Below(prefix, p)
  PROVE  SubTable(Merge(t, u), prefix) = SubTable(u, prefix)
<1> DEFINE B == {d \in DOMAIN u.data : Below(prefix, d)}
           D == {Rest(prefix, p) : p \in B}
           m == Merge(t, u)
<1>1. {d \in DOMAIN m.data : Below(prefix, d)} = B
  BY DEF Merge
<1>2. {d \in m.subs : Below(prefix, d)} = {d \in u.subs : Below(prefix, d)}
  BY DEF Merge
<1>3. ASSUME NEW r \in D
      PROVE  m.data[prefix \o r] = u.data[prefix \o r]
  <2>1. PICK p \in B : r = Rest(prefix, p)
    OBVIOUS
  <2>2. prefix \o r = p
    BY <2>1, BelowRest DEF IsTable, IsPath
  <2>3. p \in DOMAIN u.data
    OBVIOUS
  <2> QED
    BY <2>2, <2>3 DEF Merge
<1> HIDE DEF B, m
<1>4. SubTable(m, prefix) =
        [data |-> [r \in D |-> m.data[prefix \o r]],
         subs |-> {Rest(prefix, p) : p \in {d \in u.subs : Below(prefix, d)}}]
  BY <1>1, <1>2 DEF SubTable
<1>5. SubTable(u, prefix) =
        [data |-> [r \in D |-> u.data[prefix \o r]],
         subs |-> {Rest(prefix, p) : p \in {d \in u.subs : Below(prefix, d)}}]
  BY DEF SubTable, B
<1>6. [r \in D |-> m.data[prefix \o r]] = [r \in D |-> u.data[prefix \o r]]
  BY <1>3
<1> QED
  BY <1>4, <1>5, <1>6 DEF m

LEMMA OriginalSet ==
  ASSUME NEW t, IsTable(t), NEW n, NEW parameters, IsTable(parameters)
  PROVE  LET s == SetOriginalMessage(t, n, parameters) IN
         /\ IsTable(s)
         /\ GetOriginalMessageNameOrEmpty(s) = n
         /\ GetOriginalMessageParametersOrEmpty(s) = parameters
<1> DEFINE w == Without(t, Original)
           x == Put(w, <<"original_message", "message_name">>, Text(n))
           m == Move(parameters, Original)
<1>1. IsTable(w) /\ \A p \in DOMAIN w.data \cup w.subs : ~Below(Original, p)
  BY WithoutIsTable DEF Without
<1>2. IsTable(m) /\ SubTable(m, Original) = parameters
      /\ <<"original_message", "message_name">> \notin DOMAIN m.data
  BY MovedBelow
<1> HIDE DEF w, m
<1>3. /\ IsTable(x)
      /\ x.data = [q \in DOMAIN w.data \cup {<<"original_message", "message_name">>} |->
                     IF q = <<"original_message", "message_name">> THEN Text(n) ELSE w.data[q]]
      /\ x.subs = w.subs \cup {<<"original_message">>}
  <2>1. "original_message" \in Keys /\ "message_name" \in Keys /\ IsValue(Text(n))
    BY TextIsValue, TableAssumption
  <2> QED
    BY <1>1, <2>1, PutIsTable
<1> HIDE DEF x
<1>4. ~Below(Original, <<"original_message", "message_name">>) /\ ~Below(Original, <<"original_message">>)
  BY OriginalPaths DEF Below
<1>5. \A p \in DOMAIN x.data \cup x.subs : ~Below(Original, p)
  BY <1>1, <1>3, <1>4
<1>6. SubTable(Merge(x, m), Original) = parameters
  BY <1>2, <1>3, <1>5, MergeBelow, OriginalPaths
<1>8. Text(n)[2] = n /\ Text(n)[1] = "string"
  BY DEF Text
<1>7. OrEmpty(Merge(x, m), <<"original_message", "message_name">>) = Text(n)[2]
  BY <1>2, <1>3, <1>8 DEF OrEmpty, Merge
<1>9. SetOriginalMessage(t, n, parameters) = Merge(x, m)
  BY DEF SetOriginalMessage, x, w, m
<1> QED
  BY <1>2, <1>3, <1>6, <1>7, <1>8, <1>9, MergeIsTable
     DEF GetOriginalMessageNameOrEmpty, GetOriginalMessageParametersOrEmpty

-----------------------------------------------------------------------------
(* Defaults *)

LEMMA DefaultsAreTables ==
  ASSUME NEW n \in Messages, NEW D \in SUBSET DOMAIN Defaults[n]
  PROVE  /\ IsTable(DefaultValues(n, D)) /\ IsTable(DefaultTables(n, D))
         /\ \A p \in DOMAIN DefaultValues(n, D).data \cup DefaultValues(n, D).subs
                    \cup DOMAIN DefaultTables(n, D).data \cup DefaultTables(n, D).subs :
               p \in {<<k>> : k \in D}
         /\ DOMAIN DefaultTables(n, D).data = {}
<1> DEFINE V == {<<k>> : k \in {d \in D : <<"default">> \in DOMAIN Defaults[n][d].data}}
           S == {<<k>> : k \in {d \in D : <<"default">> \in Defaults[n][d].subs}}
<1>1. \A k \in D : IsPath(<<k>>) /\ IsTable(Defaults[n][k])
  BY TableAssumption DEF IsPath
<1>2. ASSUME NEW p \in V
      PROVE  /\ p \in {<<k>> : k \in D} /\ IsPath(p)
             /\ IsValue(Defaults[n][p[1]].data[<<"default">>])
  <2>1. PICK k \in D : p = <<k>> /\ <<"default">> \in DOMAIN Defaults[n][k].data
    OBVIOUS
  <2>2. p[1] = k
    BY <2>1
  <2> QED
    BY <1>1, <2>1, <2>2 DEF IsTable
<1>3. \A p \in S : p \in {<<k>> : k \in D} /\ IsPath(p)
  BY <1>1
<1> HIDE DEF V, S
<1>4. DefaultValues(n, D) =
        [data |-> [p \in V |-> Defaults[n][p[1]].data[<<"default">>]], subs |-> {}]
  BY DEF DefaultValues, V
<1>5. DefaultTables(n, D) = [data |-> <<>>, subs |-> S]
  BY DEF DefaultTables, S
<1>6. DOMAIN <<>> = {} /\ <<>> = [p \in DOMAIN <<>> |-> <<>>[p]]
  OBVIOUS
<1>7. IsTable(DefaultValues(n, D))
  BY <1>2, <1>4 DEF IsTable
<1>8. IsTable(DefaultTables(n, D))
  BY <1>3, <1>5, <1>6 DEF IsTable
<1> QED
  BY <1>2, <1>3, <1>4, <1>5, <1>6, <1>7, <1>8

LEMMA DefaultsAdded ==
  ASSUME NEW n \in Messages, NEW t, IsTable(t)
  PROVE  LET c == AddDefaultParameterValues(n, t) IN
         /\ IsTable(c)
         /\ GetOriginalMessageNameOrEmpty(c) = GetOriginalMessageNameOrEmpty(t)
         /\ GetOriginalMessageParametersOrEmpty(c) = GetOriginalMessageParametersOrEmpty(t)
<1> DEFINE V == {k \in DOMAIN Defaults[n] : <<k>> \notin DOMAIN t.data}
           S == {k \in DOMAIN Defaults[n] : <<k>> \notin t.subs}
           v == DefaultValues(n, V)
           s == DefaultTables(n, S)
<1>1. V \in SUBSET DOMAIN Defaults[n] /\ S \in SUBSET DOMAIN Defaults[n]
  OBVIOUS
<1>2. ASSUME NEW k \in DOMAIN Defaults[n]
      PROVE  ~Below(<<"original_message">>, <<k>>)
  <2>1. k \in Keys
    BY TableAssumption
  <2>2. Len(<<k>>) = 1
    BY <2>1
  <2> QED
    BY <2>2, OriginalPaths DEF Below
<1>3. AddDefaultParameterValues(n, t) = Merge(Merge(t, v), s)
  BY DEF AddDefaultParameterValues
<1> HIDE DEF V, S
<1>4. /\ IsTable(v) /\ IsTable(s)
      /\ \A p \in DOMAIN v.data \cup v.subs : p \in {<<k>> : k \in V}
      /\ \A p \in DOMAIN s.data \cup s.subs : p \in {<<k>> : k \in S}
  BY <1>1, DefaultsAreTables
<1> HIDE DEF v, s
<1>5. /\ \A p \in DOMAIN v.data \cup v.subs : ~Below(<<"original_message">>, p)
      /\ \A p \in DOMAIN s.data \cup s.subs : ~Below(<<"original_message">>, p)
  BY <1>1, <1>2, <1>4
<1>6. IsTable(Merge(t, v)) /\ IsTable(Merge(Merge(t, v), s))
  BY <1>4, MergeIsTable
<1> QED
  BY <1>3, <1>4, <1>5, <1>6, OriginalKept

\* Defaults hide nothing that was given, but a value whose default is a table.
LEMMA DefaultsKeep ==
  ASSUME NEW n \in Messages, NEW t, NEW p, NEW v, Holds(t, p, v),
         v # Table => ~ /\ p = <<p[1]>> /\ p[1] \in DOMAIN Defaults[n]
                        /\ <<"default">> \in Defaults[n][p[1]].subs
  PROVE  Holds(AddDefaultParameterValues(n, t), p, v)
<1> DEFINE V == {k \in DOMAIN Defaults[n] : <<k>> \notin DOMAIN t.data}
           S == {k \in DOMAIN Defaults[n] : <<k>> \notin t.subs}
           d == DefaultValues(n, V)
           s == DefaultTables(n, S)
           c == Merge(Merge(t, d), s)
<1>1. AddDefaultParameterValues(n, t) = c
  BY DEF AddDefaultParameterValues
<1>2. DOMAIN d.data \cap DOMAIN t.data = {} /\ d.subs = {}
  BY DEF DefaultValues
<1>3. DOMAIN s.data = {}
  BY DefaultsAreTables
<1>4. ASSUME NEW q \in s.subs
      PROVE  /\ q = <<q[1]>> /\ q[1] \in DOMAIN Defaults[n]
             /\ <<"default">> \in Defaults[n][q[1]].subs
  <2>1. PICK k \in S : q = <<k>> /\ <<"default">> \in Defaults[n][k].subs
    BY DEF DefaultTables
  <2> QED
    BY <2>1
<1> HIDE DEF d, s
<1>5. /\ DOMAIN c.data = DOMAIN t.data \cup DOMAIN d.data
      /\ c.subs = t.subs \cup s.subs
      /\ \A q \in DOMAIN t.data : c.data[q] = t.data[q]
  BY <1>2, <1>3 DEF Merge
<1> HIDE DEF c
<1> QED
  BY <1>1, <1>4, <1>5 DEF Holds

-----------------------------------------------------------------------------
(* A reply *)

LEMMA Merged ==
  ASSUME NEW t, IsTable(t), NEW p,
         LET m == GetTableToMergeWhenReplyingOrEmpty(t) IN p \in DOMAIN m.data \cup m.subs,
         Below(<<"original_message">>, p)
  PROVE  MergesOriginal(t)
<1> DEFINE at == <<"reply_to", "merge">>
           into == <<"reply_to", "merge", "original_message">>
<1>1. /\ at \in Seq(Keys) /\ Len(at) = 2 /\ at[1] = "reply_to" /\ at[2] = "merge"
      /\ into \in Seq(Keys) /\ Len(into) = 3 /\ into[1] = "reply_to" /\ into[2] = "merge"
      /\ into[3] = "original_message"
  BY TableAssumption
<1> HIDE DEF at, into
<1>2. p \in {Rest(at, q) : q \in {d \in DOMAIN t.data \cup t.subs : Below(at, d)}}
  BY DEF GetTableToMergeWhenReplyingOrEmpty, SubTable, at
<1>3. PICK q \in DOMAIN t.data \cup t.subs : Below(at, q) /\ p = Rest(at, q)
  BY <1>2
<1>4. q \in Seq(Keys) /\ p \in Seq(Keys) /\ at \o p = q
  BY <1>1, <1>3, BelowRest DEF IsTable, IsPath
<1>5. Len(p) > 1 /\ p[1] = "original_message"
  <2> DEFINE om == <<"original_message">>
  <2>1. om \in Seq(Keys) /\ Len(om) = 1 /\ om[1] = "original_message"
    BY TableAssumption
  <2>2. Below(om, p)
    OBVIOUS
  <2> HIDE DEF om
  <2>3. Len(p) > Len(om) /\ \A i \in 1 .. Len(om) : p[i] = om[i]
    BY <1>4, <2>1, <2>2, BelowElements
  <2> QED
    BY <2>1, <2>3
<1>6. /\ Len(q) = 2 + Len(p)
      /\ \A i \in 1 .. 2 + Len(p) : q[i] = IF i <= 2 THEN at[i] ELSE p[i - 2]
  <2>1. /\ Len(at \o p) = Len(at) + Len(p)
        /\ \A i \in 1 .. Len(at) + Len(p) :
             (at \o p)[i] = IF i <= Len(at) THEN at[i] ELSE p[i - Len(at)]
    BY <1>1, <1>4, ConcatProperties
  <2> QED
    BY <1>1, <1>4, <2>1
<1>7. Len(q) > 3 /\ q[1] = "reply_to" /\ q[2] = "merge" /\ q[3] = "original_message"
  <2>1. Len(p) \in Nat
    BY <1>4
  <2>2. q[1] = at[1] /\ q[2] = at[2] /\ q[3] = p[1]
    BY <1>5, <1>6, <2>1
  <2> QED
    BY <1>1, <1>5, <1>6, <2>1, <2>2
<1>8. \A i \in 1 .. Len(into) : q[i] = into[i]
  BY <1>1, <1>7
<1>9. Below(into, q)
  BY <1>1, <1>4, <1>7, <1>8, BelowElements
<1> QED
  BY <1>9 DEF MergesOriginal, into

LEMMA Replied ==
  ASSUME NEW c, IsTable(c), NEW u, IsTable(u), NEW n
  PROVE  LET t == Merge(SetOriginalMessage(u, n, c),
                        GetTableToMergeWhenReplyingOrEmpty(c)) IN
         /\ IsTable(t)
         /\ ~MergesOriginal(c) =>
               /\ GetOriginalMessageNameOrEmpty(t) = n
               /\ GetOriginalMessageParametersOrEmpty(t) = c
<1> DEFINE s == SetOriginalMessage(u, n, c)
           m == GetTableToMergeWhenReplyingOrEmpty(c)
<1>1. /\ IsTable(s) /\ GetOriginalMessageNameOrEmpty(s) = n
      /\ GetOriginalMessageParametersOrEmpty(s) = c
  BY OriginalSet
<1>2. IsTable(m)
  <2>1. <<"reply_to", "merge">> \in Seq(Keys)
    BY TableAssumption
  <2> QED
    BY <2>1, SubTableIsTable DEF GetTableToMergeWhenReplyingOrEmpty
<1>3. ~MergesOriginal(c) =>
        \A p \in DOMAIN m.data \cup m.subs : ~Below(<<"original_message">>, p)
  BY Merged
<1> HIDE DEF s, m
<1>4. IsTable(Merge(s, m))
  BY <1>1, <1>2, MergeIsTable
<1> QED
  BY <1>1, <1>2, <1>3, <1>4, OriginalKept DEF s, m

\* Everything outside of original_message and of what is merged is as it was.
LEMMA ReplyKeeps ==
  ASSUME NEW c, IsTable(c), NEW u, IsTable(u), NEW n, NEW p, NEW v,
         IsPath(p), p[1] # "original_message", Holds(u, p, v),
         LET m == GetTableToMergeWhenReplyingOrEmpty(c) IN p \notin DOMAIN m.data \cup m.subs
  PROVE  Holds(Merge(SetOriginalMessage(u, n, c), GetTableToMergeWhenReplyingOrEmpty(c)), p, v)
<1> DEFINE w == Without(u, Original)
           x == Put(w, <<"original_message", "message_name">>, Text(n))
           o == Move(c, Original)
           s == Merge(x, o)
           m == GetTableToMergeWhenReplyingOrEmpty(c)
<1>1. ASSUME NEW q \in DOMAIN o.data \cup o.subs
      PROVE  q[1] = "original_message"
  <2>1. Original[1] = "original_message" /\ Original \in Seq(Keys) /\ Len(Original) = 2
    BY OriginalPaths DEF Original
  <2>2. CASE \E d \in DOMAIN c.data \cup c.subs : q = Original \o d
    <3>1. PICK d \in Seq(Keys) : q = Original \o d
      BY <2>2 DEF IsTable, IsPath
    <3>2. 1 \in 1 .. Len(Original) + Len(d) /\ 1 <= Len(Original)
      <4>1. Len(d) \in Nat
        BY <3>1, LenProperties
      <4> QED
        BY <2>1, <4>1
    <3>3. \A i \in 1 .. Len(Original) + Len(d) :
             (Original \o d)[i] = IF i <= Len(Original) THEN Original[i] ELSE d[i - Len(Original)]
      BY <2>1, ConcatProperties
    <3> QED
      BY <2>1, <3>1, <3>2, <3>3
  <2>3. CASE \E i \in 1 .. Len(Original) : q = SubSeq(Original, 1, i)
    <3>1. PICK i \in 1 .. 2 : q = SubSeq(Original, 1, i)
      BY <2>1, <2>3
    <3>2. \A j \in 1 .. i : Original[j] \in Keys
      BY OriginalPaths
    <3>3. q[1] = Original[1]
      BY <3>1, <3>2, SubSeqProperties
    <3> QED
      BY <2>1, <3>3
  <2> QED
    BY <2>2, <2>3 DEF Move
<1>2. ~Below(Original, p)
  <2>1. Below(Original, p) => Below(<<"original_message">>, p)
    BY OriginalPaths DEF IsPath
  <2> DEFINE om == <<"original_message">>
  <2>2. om \in Seq(Keys) /\ Len(om) = 1 /\ om[1] = "original_message"
    BY TableAssumption
  <2> HIDE DEF om
  <2>3. Below(om, p) => p[1] = "original_message"
    BY <2>2, BelowElements DEF IsPath
  <2> QED
    BY <2>1, <2>3 DEF om
<1>3. Holds(w, p, v)
  BY <1>2 DEF Holds, Without
<1>4. IsTable(w)
  BY WithoutIsTable
<1> HIDE DEF w
<1>5. /\ x.data = [q \in DOMAIN w.data \cup {<<"original_message", "message_name">>} |->
                     IF q = <<"original_message", "message_name">> THEN Text(n) ELSE w.data[q]]
      /\ x.subs = w.subs \cup {<<"original_message">>}
  <2>1. "original_message" \in Keys /\ "message_name" \in Keys /\ IsValue(Text(n))
    BY TextIsValue, TableAssumption
  <2> QED
    BY <1>4, <2>1, PutIsTable
<1>6. p # <<"original_message", "message_name">> /\ p # <<"original_message">>
  OBVIOUS
<1> HIDE DEF x
<1>7. Holds(x, p, v)
  BY <1>3, <1>5, <1>6 DEF Holds
<1>8. p \notin DOMAIN o.data \cup o.subs
  BY <1>1
<1> HIDE DEF o
<1>9. Holds(s, p, v)
  BY <1>7, <1>8 DEF Holds, Merge
<1>10. SetOriginalMessage(u, n, c) = s
  BY DEF SetOriginalMessage, x, w, o
<1> HIDE DEF s, m
<1>11. p \notin DOMAIN m.data \cup m.subs
  BY DEF m
<1>12. Holds(Merge(s, m), p, v)
  BY <1>9, <1>11 DEF Holds, Merge
<1> QED
  BY <1>10, <1>12 DEF m

-----------------------------------------------------------------------------
(* The way of a message *)

Arriving ==
    place \in {"queue", "function"} =>
        \A p \in DOMAIN given :
            Plain(given, p) /\ ~Entered(p) => Holds(carried, Contents(p), given[p])
Answers ==
    place \in {"queue", "function"} /\ replies > 0 /\ ~MergesOriginal(question.parameters) =>
        /\ GetOriginalMessageNameOrEmpty(carried) = question.name
        /\ GetOriginalMessageParametersOrEmpty(carried) = question.parameters
ContentInv ==
    /\ IsTable(carried) /\ IsLua(given) /\ replies \in Nat
    /\ place = "script" => replies = 0
    /\ place = "queue" => name \in Messages
    /\ place = "function" => received = PushTable(carried)
    /\ Arriving /\ Answers

LEMMA ContentInit ==
  ASSUME TablesInit
  PROVE  ContentInv
<1>1. IsTable(Empty)
  BY DEF Empty, IsTable
<1>2. IsLua(<<>>)
  BY DEF IsLua
<1> QED
  BY <1>1, <1>2 DEF TablesInit, ContentInv, Arriving, Answers

LEMMA SentFacts ==
  ASSUME NEW n \in Messages, NEW t, IsTable(t), SendTo(n, t)
  PROVE  /\ place' = "queue" /\ name' = n
         /\ carried' = AddDefaultParameterValues(n, t) /\ IsTable(carried')
         /\ GetOriginalMessageNameOrEmpty(carried') = GetOriginalMessageNameOrEmpty(t)
         /\ GetOriginalMessageParametersOrEmpty(carried') = GetOriginalMessageParametersOrEmpty(t)
BY DefaultsAdded DEF SendTo

LEMMA ReplyToSet ==
  ASSUME NEW t, IsTable(t), NEW agent
  PROVE  LET u == SetReplyToAgentName(t, agent) IN
         /\ IsTable(u)
         /\ DOMAIN t.data \subseteq DOMAIN u.data
         /\ \A q \in DOMAIN t.data : q # <<"reply_to", "agent">> => u.data[q] = t.data[q]
         /\ u.subs = t.subs \cup {<<"reply_to">>}
<1>1. "reply_to" \in Keys /\ "agent" \in Keys
  BY TableAssumption
<1> DEFINE v == Text(agent)
           at == <<"reply_to", "agent">>
           u == Put(t, at, v)
<1>2. IsValue(v)
  BY TextIsValue
<1> HIDE DEF v
<1>3. /\ IsTable(u)
      /\ u.data = [q \in DOMAIN t.data \cup {at} |-> IF q = at THEN v ELSE t.data[q]]
      /\ u.subs = t.subs \cup {<<"reply_to">>}
  BY <1>1, <1>2, PutIsTable
<1>4. SetReplyToAgentName(t, agent) = u
  BY DEF SetReplyToAgentName, v
<1> HIDE DEF u
<1> QED
  BY <1>3, <1>4

\* The agent to reply to is entered where there is none.
LEMMA ReplyToKeeps ==
  ASSUME NEW lua, IsLua(lua), NEW t \in LuaToTable(lua), NEW agent,
         NEW p \in DOMAIN lua, Plain(lua, p), Contents(p) # <<"reply_to">>,
         Contents(p) = <<"reply_to", "agent">> =>
             lua[p][1] = "string" /\ lua[p] \notin {Text(s) : s \in Addresses \cup {""}}
  PROVE  Holds(IF GetReplyToAgentNameOrEmpty(t) = "" THEN SetReplyToAgentName(t, agent) ELSE t,
               Contents(p), lua[p])
<1> DEFINE n == Contents(p)
           at == <<"reply_to", "agent">>
           u == SetReplyToAgentName(t, agent)
<1>1. IsTable(t) /\ Holds(t, n, lua[p])
  BY ConvertedIsTable, PlainKept
<1>2. CASE n = at
  <2>1. /\ lua[p][1] = "string" /\ lua[p] = Text(lua[p][2])
        /\ lua[p][2] \notin Addresses \cup {""}
    BY <1>2 DEF IsLua, IsPair, Text
  <2>2. lua[p][2] \notin DOMAIN Numerals
    BY <2>1 DEF Plain, PlainValue
  <2>3. lua[p] # Table
    BY <2>1, NotTable
  <2>4. ToValue(lua[p]) = lua[p]
    BY <2>1, <2>2, TableAssumption DEF ToValue
  <2>5. at \in DOMAIN t.data /\ t.data[at] = lua[p]
    BY <1>1, <1>2, <2>3, <2>4 DEF Holds
  <2>6. GetReplyToAgentNameOrEmpty(t) # ""
    BY <2>1, <2>5 DEF GetReplyToAgentNameOrEmpty, OrEmpty
  <2> QED
    BY <1>1, <2>6
<1>3. CASE n # at
  <2> HIDE DEF n
  <2>2. /\ DOMAIN t.data \subseteq DOMAIN u.data
        /\ \A q \in DOMAIN t.data : q # at => u.data[q] = t.data[q]
        /\ u.subs = t.subs \cup {<<"reply_to">>}
    BY <1>1, ReplyToSet
  <2>3. n # <<"reply_to">>
    BY DEF n
  <2> HIDE DEF u, at
  <2>4. Holds(u, n, lua[p])
    BY <1>1, <1>3, <2>2, <2>3 DEF Holds
  <2> QED
    BY <1>1, <2>4 DEF u, n
<1> QED
  BY <1>2, <1>3

LEMMA ContentKept ==
  ASSUME ContentInv, [TablesNext]_tableVars
  PROVE  ContentInv'
<1>1. ASSUME NEW n \in Messages, NEW lua \in Tables, Send(n, lua)
      PROVE  ContentInv'
  <2>1. /\ given' = lua /\ replies' = replies /\ replies = 0 /\ IsLua(lua)
    BY <1>1, TableAssumption DEF Send, ContentInv
  <2>2. PICK t \in LuaToTable(lua) :
          SendTo(n, IF GetReplyToAgentNameOrEmpty(t) = ""
                    THEN SetReplyToAgentName(t, AgentOf[n]) ELSE t)
    BY <1>1 DEF Send
  <2> DEFINE sent == IF GetReplyToAgentNameOrEmpty(t) = ""
                     THEN SetReplyToAgentName(t, AgentOf[n]) ELSE t
  <2>3. IsTable(sent)
    <3>1. IsTable(t)
      BY <2>1, ConvertedIsTable
    <3> QED
      BY <3>1, ReplyToSet
  <2>4. ASSUME NEW p \in DOMAIN lua, Plain(lua, p), ~Entered(p)'
        PROVE  Holds(sent, Contents(p), lua[p])
    <3>1. /\ Contents(p) # <<"reply_to">>
          /\ Contents(p) = <<"reply_to", "agent">> =>
                lua[p][1] = "string" /\ lua[p] \notin {Text(s) : s \in Addresses \cup {""}}
      BY <2>1, <2>4 DEF Entered
    <3> QED
      BY <2>1, <2>4, <3>1, ReplyToKeeps
  <2> HIDE DEF sent
  <2>5. SendTo(n, sent)
    BY <2>2 DEF sent
  <2>6. /\ place' = "queue" /\ name' = n /\ IsTable(carried')
        /\ carried' = AddDefaultParameterValues(n, sent)
    BY <2>3, <2>5, SentFacts
  <2>7. ASSUME NEW p \in DOMAIN lua, Plain(lua, p), ~Entered(p)'
        PROVE  Holds(carried', Contents(p), lua[p])
    <3>1. ~ /\ Contents(p) = <<Contents(p)[1]>> /\ Contents(p)[1] \in DOMAIN Defaults[n]
            /\ <<"default">> \in Defaults[n][Contents(p)[1]].subs
      BY <2>6, <2>7 DEF Entered
    <3> QED
      BY <2>4, <2>6, <2>7, <3>1, DefaultsKeep
  <2> QED
    BY <2>1, <2>6, <2>7 DEF ContentInv, Arriving, Answers
<1>2. CASE Handle
  BY <1>2 DEF Handle, ContentInv, Arriving, Answers, Entered
<1>3. ASSUME NEW lua \in Tables, Reply(lua)
      PROVE  ContentInv'
  <2> DEFINE m == GetTableToMergeWhenReplyingOrEmpty(carried)
             n == GetReplyToMessageNameOrEmpty(carried)
             reply(u) == Merge(SetOriginalMessage(u, name, carried), m)
  <2>1. /\ given' = lua /\ question' = [name |-> name, parameters |-> carried]
        /\ replies' = replies + 1 /\ n \in Messages
    BY <1>3 DEF Reply
  <2>2. IsLua(lua) /\ IsTable(carried) /\ replies' \in Nat /\ replies' > 0
    BY <2>1, TableAssumption DEF ContentInv
  <2>3. PICK u \in LuaToTable(lua) : SendTo(n, reply(u))
    BY <1>3 DEF Reply
  <2>4. IsTable(u)
    BY <2>2, ConvertedIsTable
  <2>5. /\ IsTable(reply(u))
        /\ ~MergesOriginal(carried) =>
             /\ GetOriginalMessageNameOrEmpty(reply(u)) = name
             /\ GetOriginalMessageParametersOrEmpty(reply(u)) = carried
    BY <2>2, <2>4, Replied
  <2>6. ASSUME NEW p \in DOMAIN lua, Plain(lua, p), ~Entered(p)'
        PROVE  Holds(reply(u), Contents(p), lua[p])
    <3>1. Contents(p)[1] # "original_message" /\ Contents(p) \notin DOMAIN m.data \cup m.subs
      BY <2>1, <2>2, <2>6 DEF Entered
    <3>2. IsPath(Contents(p)) /\ Holds(u, Contents(p), lua[p])
      BY <2>2, <2>6, PlainKept
    <3> QED
      BY <2>2, <2>4, <3>1, <3>2, ReplyKeeps
  <2> DEFINE t == reply(u)
  <2> HIDE DEF t, n, reply
  <2>7. IsTable(t) /\ SendTo(n, t)
    BY <2>3, <2>5 DEF t
  <2>8. /\ place' = "queue" /\ name' = n /\ IsTable(carried')
        /\ carried' = AddDefaultParameterValues(n, t)
        /\ GetOriginalMessageNameOrEmpty(carried') = GetOriginalMessageNameOrEmpty(t)
        /\ GetOriginalMessageParametersOrEmpty(carried') = GetOriginalMessageParametersOrEmpty(t)
    BY <2>1, <2>7, SentFacts
  <2>9. Answers'
    BY <2>1, <2>5, <2>8 DEF Answers, t
  <2>10. ASSUME NEW p \in DOMAIN lua, Plain(lua, p), ~Entered(p)'
         PROVE  Holds(carried', Contents(p), lua[p])
    <3>1. ~ /\ Contents(p) = <<Contents(p)[1]>> /\ Contents(p)[1] \in DOMAIN Defaults[n]
            /\ <<"default">> \in Defaults[n][Contents(p)[1]].subs
      BY <2>8, <2>10 DEF Entered
    <3>2. Holds(t, Contents(p), lua[p])
      BY <2>6, <2>10 DEF t
    <3> QED
      BY <2>1, <2>8, <3>1, <3>2, DefaultsKeep
  <2>11. Arriving'
    BY <2>1, <2>10 DEF Arriving
  <2> QED
    BY <2>1, <2>2, <2>8, <2>9, <2>11 DEF ContentInv
<1>4. CASE UNCHANGED tableVars
  BY <1>4 DEF tableVars, ContentInv, Arriving, Answers, Entered
<1> QED
  BY <1>1, <1>2, <1>3, <1>4 DEF TablesNext

LEMMA ContentInvariant == TablesSpec => []ContentInv
<1>1. TablesInit => ContentInv
  BY ContentInit
<1>2. ContentInv /\ [TablesNext]_tableVars => ContentInv'
  BY ContentKept
<1> QED
  BY <1>1, <1>2, PTL DEF TablesSpec

\* A plain entry of the table that a script sends or returns is in the table
\* that the function is called with, for all tables, also if others of their
\* entries collide, are converted or lost, and for all descriptions, defaults
\* and numbers of replies, unless the library enters something there
\* (agent_message.cpp:133-163, lua.cpp:389-522).
THEOREM PlainEntriesArrive == TablesSpec => []GivenArrives
<1>1. ASSUME ContentInv, place = "function",
             NEW p \in DOMAIN given, Plain(given, p), ~Entered(p)
      PROVE  p \in DOMAIN received /\ received[p] = given[p]
  <2>1. /\ IsTable(carried) /\ IsLua(given) /\ received = PushTable(carried)
        /\ Holds(carried, Contents(p), given[p]) /\ PlainValue(given[p])
    BY <1>1 DEF ContentInv, Arriving, Plain
  <2>2. Strings(Contents(p)) = p /\ IsPath(Contents(p))
    BY <1>1, <2>1, PlainPath
  <2> QED
    BY <2>1, <2>2, HeldIsPushed
<1>2. ContentInv => GivenArrives
  BY <1>1 DEF GivenArrives
<1> QED
  BY <1>2, ContentInvariant, PTL

\* The function called with a reply finds the name and exactly the parameters
\* of the message that was answered, through any number of replies to replies,
\* with any defaults and results that hold earlier messages, unless the sender
\* asked to merge something into original_message itself
\* (agent_thread_lua.cpp:216-221, lua_table.cpp:50-57, message.cpp:34-63).
THEOREM RepliesKnowQuestions == TablesSpec => []ReplyKnowsQuestion
<1>1. ContentInv => ReplyKnowsQuestion
  BY DEF ContentInv, Answers, ReplyKnowsQuestion
<1> QED
  BY <1>1, ContentInvariant, PTL

\* When a function sends on what it was called with, the keys of that are the
\* same at every later hop, and the whole table is once it is settled, for
\* all tables that messages carry (lua.cpp:389-522).
THEOREM ForwardingSettles == TablesSpec => []ForwardedAsReceived
<1>1. ContentInv => ForwardedAsReceived
  BY RoundTrip, PushedIsStable DEF ContentInv, ForwardedAsReceived
<1> QED
  BY <1>1, ContentInvariant, PTL

-----------------------------------------------------------------------------
(* Files on their way *)

Stages == {"begin", "zip", "failed", "zipped", "connect", "https", "nowhere", "connected",
           "requested", "opened", "got", "read", "exception", "returned", "unzip", "unzipped"}

\* While files are zipped or unzipped, each is there, still to be done, or was
\* ignored.
TransferInv ==
    /\ call \in [at : Stages, todo : SUBSET Files]
    /\ At("zip") => DOMAIN archive = Files \ call.todo
    /\ ~At("begin") /\ ~At("zip") /\ ~At("failed") => DOMAIN archive = Files
    /\ At("begin") => DOMAIN archive = {}
    /\ \A f \in DOMAIN archive : archive[f] = "whole" \/ f \in ignored
    /\ At("unzip") => \A f \in Files : f \in call.todo \/ IsWhole(f) \/ f \in ignored
    /\ LostOnlyIfIgnored

LEMMA TransferStart ==
  ASSUME TransfersInit
  PROVE  TransferInv
<1>1. DOMAIN <<>> = {}
  OBVIOUS
<1> QED
  BY <1>1 DEF TransfersInit, TransferInv, Stages, At, LostOnlyIfIgnored

LEMMA TransferKept ==
  ASSUME TransferInv, [TransfersNext]_transferVars
  PROVE  TransferInv'
<1> USE DEF TransferInv, Stages, At, Goto, LostOnlyIfIgnored, IsWhole, zipVars
<1>1. CASE ZipBegins
  BY <1>1 DEF ZipBegins
<1>10. CASE ZipFails
  BY <1>10 DEF ZipFails
<1>11. CASE ZipEnds
  <2>1. DOMAIN archive = Files /\ call' = [at |-> "zipped", todo |-> {}]
    BY <1>11 DEF ZipEnds
  <2> QED
    BY <1>11, <2>1 DEF ZipEnds
<1>8. ASSUME NEW f \in Files, ZipAdds(f)
      PROVE  TransferInv'
  <2>1. PICK content \in Fates :
          /\ archive' = [g \in DOMAIN archive \cup {f} |-> IF g = f THEN content ELSE archive[g]]
          /\ ignored' = IF content = "whole" THEN ignored ELSE ignored \cup {f}
    BY <1>8 DEF ZipAdds
  <2>2. call.at = "zip" /\ f \in call.todo /\ call' = [at |-> "zip", todo |-> call.todo \ {f}]
    BY <1>8 DEF ZipAdds
  <2>3. DOMAIN archive' = Files \ call'.todo
    BY <2>1, <2>2
  <2>4. \A g \in DOMAIN archive' : archive'[g] = "whole" \/ g \in ignored'
    BY <2>1
  <2> QED
    BY <2>2, <2>3, <2>4
<1>2. ASSUME NEW url \in Urls, ReadHttp(url)
      PROVE  TransferInv'
  BY <1>2 DEF ReadHttp
<1>3. CASE \/ Connect \/ SendRequest \/ Response \/ Download \/ Read
           \/ Abort \/ DownloadFails \/ DownloadEnds \/ ReadHttps
  BY <1>3 DEF Connect, SendRequest, Response, Download, Read, Abort, DownloadFails,
              DownloadEnds, ReadHttps
<1>4. CASE Unzip
  BY <1>4 DEF Unzip
<1>5. ASSUME NEW f \in Files, UnzipExtracts(f)
      PROVE  TransferInv'
  BY <1>5 DEF UnzipExtracts
<1>9. ASSUME NEW f \in Files, UnzipSkips(f)
      PROVE  TransferInv'
  BY <1>9 DEF UnzipSkips
<1>6. CASE UnzipFails \/ UnzipEnds
  BY <1>6 DEF UnzipFails, UnzipEnds
<1>7. CASE UNCHANGED transferVars
  BY <1>7 DEF transferVars
<1> QED
  BY <1>1, <1>2, <1>3, <1>4, <1>5, <1>6, <1>7, <1>8, <1>9, <1>10, <1>11 DEF TransfersNext

\* A file that is not as it was in a folder that was unzipped without an error
\* is one with an error that nothing looked at, for any number of files and
\* chunks, whatever else fails, ends early or is aborted and however often the
\* download is tried again (utility.cpp:152-211, 274-309, 373-500).
THEOREM LossesWereIgnored == TransfersSpec => []LostOnlyIfIgnored
<1>1. TransfersInit => TransferInv
  BY TransferStart
<1>2. TransferInv /\ [TransfersNext]_transferVars => TransferInv'
  BY TransferKept
<1>3. TransferInv => LostOnlyIfIgnored
  BY DEF TransferInv
<1> QED
  BY <1>1, <1>2, <1>3, PTL DEF TransfersSpec
=============================================================================
