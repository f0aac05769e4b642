------------------------- MODULE SbeRegistryProofs -------------------------
(***************************************************************************)
(* A codec finds every message by its ids and by its name, for any number  *)
(* of files of one descriptor pool, and refuses files only for cause.      *)
(***************************************************************************)
EXTENDS SbeRegistry, TLAPS

\* Two pairs of uint16s with one key are one pair.
LEMMA KeysDiffer ==
  ASSUME NEW s \in 0 .. MaxUint16, NEW t \in 0 .. MaxUint16,
         NEW a \in 0 .. MaxUint16, NEW b \in 0 .. MaxUint16,
         IDKey(s, a) = IDKey(t, b)
  PROVE  s = t /\ a = b
<1> DEFINE M == MaxUint16 + 1
<1>1. M \in Nat /\ a < M /\ b < M /\ a \in Nat /\ b \in Nat /\ s \in Nat /\ t \in Nat
  BY RegistryAssumption
<1>2. s * M + a = t * M + b
  BY DEF IDKey
<1> HIDE DEF M
<1>3. ASSUME NEW x \in Nat, NEW y \in Nat, x < y
      PROVE  x * M + M <= y * M
  <2>1. PICK d \in Nat : y = x + 1 + d
    <3>1. y - x - 1 \in Nat /\ y = x + 1 + (y - x - 1)
      BY <1>3
    <3> QED BY <3>1
  <2>2. y * M = x * M + M + d * M
    BY <1>1, <2>1
  <2>3. d * M \in Nat /\ x * M \in Nat
    BY <1>1
  <2> QED BY <1>1, <2>2, <2>3
<1>4. s * M \in Nat /\ t * M \in Nat
  BY <1>1
<1>5. ~(s < t)
  <2>1. SUFFICES ASSUME s < t PROVE FALSE
    OBVIOUS
  <2>2. s * M + M <= t * M
    BY <1>1, <1>3, <2>1
  <2> QED BY <1>1, <1>2, <1>4, <2>2
<1>6. ~(t < s)
  <2>1. SUFFICES ASSUME t < s PROVE FALSE
    OBVIOUS
  <2>2. t * M + M <= s * M
    BY <1>1, <1>3, <2>1
  <2> QED BY <1>1, <1>2, <1>4, <2>2
<1>7. s = t
  BY <1>1, <1>5, <1>6
<1> QED BY <1>1, <1>2, <1>4, <1>7

\* The files and the place in them that New is at.
LEMMA PlaceFacts ==
  ASSUME IInv, at.file <= Len(files)
  PROVE  /\ FileSetOK(files) /\ at.file \in DOMAIN files
         /\ File.schema \in Nat \cup {None} /\ File.version \in Nat
         /\ DOMAIN File.msgs = 1 .. Len(File.msgs) /\ Len(File.msgs) \in Nat
         /\ at.msg <= Len(File.msgs) => at.msg \in DOMAIN File.msgs /\ Msg.tid \in Nat \cup {None}
<1>1. FileSetOK(files) /\ at.file \in Nat \ {0} /\ at.msg \in Nat \ {0}
  BY RegistryAssumption DEF IInv
<1>2. at.file \in DOMAIN files
  BY <1>1 DEF FileSetOK
<1>3. /\ File.schema \in Nat \cup {None} /\ File.version \in Nat
      /\ DOMAIN File.msgs = 1 .. Len(File.msgs) /\ Len(File.msgs) \in Nat
  BY <1>1, <1>2 DEF FileSetOK, File
<1>4. at.msg <= Len(File.msgs) => at.msg \in DOMAIN File.msgs
  BY <1>1, <1>3
<1>5. at.msg <= Len(File.msgs) => Msg.tid \in Nat \cup {None}
  BY <1>1, <1>2, <1>4 DEF FileSetOK, File, Msg
<1> QED BY <1>1, <1>2, <1>3, <1>4, <1>5

\* New begins with nothing registered.
LEMMA InitInv == Init => IInv
<1> SUFFICES ASSUME Init PROVE IInv
  OBVIOUS
<1>1. /\ tmpls \in Seq(Tmpl)
      /\ DOMAIN by_id = {} /\ DOMAIN by_name = {} /\ DOMAIN tmpls = {}
  BY DEF Init
<1>2. at = [file |-> 1, msg |-> 1] /\ at.file = 1 /\ at.msg = 1 /\ at \in [file : Nat \ {0}, msg : Nat \ {0}]
  BY DEF Init
<1>3. FileSetOK(files) /\ files \in FileSets
  BY RegistryAssumption DEF Init
<1>4. \A i \in DOMAIN files : \A j \in DOMAIN files[i].msgs : ~Past(i, j)
  BY <1>2, <1>3 DEF Past, FileSetOK
<1>5. st = "running"
  BY DEF Init
<1>6. RefusedForCause
  BY <1>5 DEF RefusedForCause
<1> QED BY <1>1, <1>2, <1>3, <1>4, <1>5, <1>6 DEF IInv

\* What Append does to the templates.
LEMMA AppendFacts ==
  ASSUME NEW S, NEW s \in Seq(S), NEW e \in S
  PROVE  /\ Append(s, e) \in Seq(S) /\ Len(s) \in Nat /\ DOMAIN s = 1 .. Len(s)
         /\ DOMAIN Append(s, e) = DOMAIN s \cup {Len(s) + 1} /\ Len(s) + 1 \notin DOMAIN s
         /\ \A i \in DOMAIN s : Append(s, e)[i] = s[i]
         /\ Append(s, e)[Len(s) + 1] = e
OBVIOUS

\* A step that leaves the tables alone.
LEMMA SameTables ==
  ASSUME IInv, UNCHANGED <<files, by_id, by_name, tmpls>>,
         at' \in [file : Nat \ {0}, msg : Nat \ {0}],
         \A i \in DOMAIN files : \A j \in DOMAIN files[i].msgs : Past(i, j)' => Past(i, j) \/ IsRegistered(i, j),
         st' \in {"running", "ok", "refused"}, st' = "ok" => at'.file > Len(files), RefusedForCause'
  PROVE  IInv'
<1>1. Names' = Names
  BY DEF Names
<1>2. (tmpls \in Seq(Tmpl))'
  BY <1>1 DEF IInv, Tmpl
<1>3. (\A n \in DOMAIN tmpls : FromFiles(tmpls[n]))'
  BY DEF IInv, FromFiles, TmplOf
<1>4. (\A i \in DOMAIN files : \A j \in DOMAIN files[i].msgs : Past(i, j) => IsRegistered(i, j))'
  <2>1. ASSUME NEW i \in DOMAIN files, NEW j \in DOMAIN files[i].msgs, Past(i, j)'
        PROVE  IsRegistered(i, j)'
    <3>1. IsRegistered(i, j)
      BY <2>1 DEF IInv
    <3> QED BY <3>1 DEF IsRegistered
  <2> QED BY <2>1
<1> QED BY <1>2, <1>3, <1>4 DEF IInv

\* New refuses, for a cause that the files hold.
LEMMA RefuseKeeps ==
  ASSUME IInv, Refuse, RefusedForCause'
  PROVE  IInv'
<1>1. UNCHANGED <<files, by_id, by_name, tmpls>> /\ at' = at /\ st' = "refused"
  BY DEF Refuse
<1>2. \A i \in DOMAIN files : \A j \in DOMAIN files[i].msgs : Past(i, j)' => Past(i, j)
  BY <1>1 DEF Past
<1>3. at' \in [file : Nat \ {0}, msg : Nat \ {0}]
  BY <1>1 DEF IInv
<1> QED BY <1>1, <1>2, <1>3, SameTables

\* The steps between messages.
LEMMA FileStep ==
  ASSUME IInv, NextFile \/ RefuseFile \/ Finish
  PROVE  IInv'
<1>1. CASE NextFile
  <2>1. /\ at' = [file |-> at.file + 1, msg |-> 1] /\ st' = st /\ st = "running"
        /\ UNCHANGED <<files, by_id, by_name, tmpls>> /\ at.msg > Len(File.msgs) /\ at.file <= Len(files)
    BY <1>1 DEF NextFile
  <2>2. at.file \in Nat \ {0} /\ at.msg \in Nat \ {0} /\ at' \in [file : Nat \ {0}, msg : Nat \ {0}]
    BY <2>1 DEF IInv
  <2>3. ASSUME NEW i \in DOMAIN files, NEW j \in DOMAIN files[i].msgs, Past(i, j)'
        PROVE  Past(i, j)
    <3>1. i \in Nat /\ j \in Nat \ {0} /\ j <= Len(files[i].msgs) /\ Len(files[i].msgs) \in Nat
      BY RegistryAssumption DEF IInv, FileSetOK
    <3>2. i < at.file + 1 \/ (i = at.file + 1 /\ j < 1)
      BY <2>1, <2>3 DEF Past
    <3>3. i < at.file \/ i = at.file
      BY <2>2, <3>1, <3>2
    <3>4. i = at.file => j < at.msg
      BY <2>1, <2>2, <3>1 DEF File
    <3> QED BY <3>3, <3>4 DEF Past
  <2>4. RefusedForCause'
    BY <2>1 DEF RefusedForCause
  <2> QED BY <2>1, <2>2, <2>3, <2>4, SameTables
<1>2. CASE Finish
  <2>1. /\ at' = at /\ st' = "ok" /\ UNCHANGED <<files, by_id, by_name, tmpls>> /\ at.file > Len(files)
    BY <1>2 DEF Finish
  <2>2. \A i \in DOMAIN files : \A j \in DOMAIN files[i].msgs : Past(i, j)' => Past(i, j)
    BY <2>1 DEF Past
  <2>3. RefusedForCause' /\ at' \in [file : Nat \ {0}, msg : Nat \ {0}]
    BY <2>1 DEF RefusedForCause, IInv
  <2> QED BY <2>1, <2>2, <2>3, SameTables
<1>3. CASE RefuseFile
  <2>1. /\ Refuse /\ FileRefused /\ at.file \in DOMAIN files /\ files' = files
        /\ File.schema \in Nat \cup {None} /\ File.version \in Nat
    BY <1>3, PlaceFacts DEF RefuseFile, Refuse
  <2>2. File.schema \notin 0 .. MaxUint16 \/ File.version \notin 0 .. MaxUint16
    BY <2>1, RegistryAssumption DEF FileRefused, None
  <2>3. RefusedForCause'
    BY <2>1, <2>2 DEF RefusedForCause, File
  <2> QED BY <2>1, <2>3, RefuseKeeps
<1> QED BY <1>1, <1>2, <1>3

\* Messages of one name have one key.
LEMMA OneKey ==
  ASSUME IInv, OnePool(files), NEW n \in DOMAIN tmpls,
         NEW i \in DOMAIN files, NEW j \in DOMAIN files[i].msgs,
         tmpls[n].name = files[i].msgs[j].name
  PROVE  tmpls[n].schema = files[i].schema /\ tmpls[n].tid = files[i].msgs[j].tid
<1>1. PICK k \in DOMAIN files : \E l \in DOMAIN files[k].msgs : tmpls[n] = TmplOf(k, l)
  BY DEF IInv, FromFiles
<1>2. PICK l \in DOMAIN files[k].msgs : tmpls[n] = TmplOf(k, l)
  BY <1>1
<1>3. /\ tmpls[n].name = files[k].msgs[l].name /\ tmpls[n].schema = files[k].schema
      /\ tmpls[n].tid = files[k].msgs[l].tid
  BY <1>2 DEF TmplOf
<1>4. files[k].msgs[l].name = files[i].msgs[j].name
  BY <1>3
<1>5. files[k].msgs[l] = files[i].msgs[j] /\ files[k].schema = files[i].schema
  BY <1>1, <1>2, <1>4, Zenon DEF OnePool
<1> QED BY <1>3, <1>5

\* RegisterMessage, where it registers the message.
LEMMA RegisterKeeps ==
  ASSUME IInv, OnePool(files), NEW key, key = IDKey(File.schema, Msg.tid),
         at.file <= Len(files), at.msg <= Len(File.msgs), ~FileRefused,
         Msg.tid # None, Msg.tid <= MaxUint16, ~Taken(key), st = "running",
         tmpls' = Append(tmpls, [name |-> Msg.name, schema |-> File.schema, tid |-> Msg.tid]),
         Point(key, NewTmpl), by_name' = Put(by_name, Msg.name, NewTmpl),
         at' = [at EXCEPT !.msg = @ + 1], UNCHANGED <<files, st>>
  PROVE  IInv'
<1> DEFINE T == [name |-> Msg.name, schema |-> File.schema, tid |-> Msg.tid]
           new == Len(tmpls) + 1
           N == Msg.name
<1>1. /\ FileSetOK(files) /\ at.file \in DOMAIN files /\ at.msg \in DOMAIN File.msgs
      /\ File.schema \in Nat \cup {None} /\ Msg.tid \in Nat \cup {None}
  BY PlaceFacts
<1>2. File.schema \in 0 .. MaxUint16 /\ Msg.tid \in 0 .. MaxUint16
  <2>1. File.schema \in Nat /\ File.schema <= MaxUint16
    BY <1>1, RegistryAssumption DEF FileRefused
  <2>2. Msg.tid \in Nat
    BY <1>1
  <2> QED BY <2>1, <2>2, RegistryAssumption
<1>3. N \in Names /\ T = TmplOf(at.file, at.msg)
  <2>1. at.msg \in DOMAIN files[at.file].msgs /\ N = files[at.file].msgs[at.msg].name
    BY <1>1 DEF File, Msg
  <2>2. N \in {files[at.file].msgs[j].name : j \in DOMAIN files[at.file].msgs}
    BY <2>1
  <2>3. N \in Names
    BY <1>1, <2>2, Zenon DEF Names
  <2> QED BY <2>3 DEF TmplOf, File, Msg
<1>4. T \in Tmpl /\ T.name = N /\ T.schema = File.schema /\ T.tid = Msg.tid
  BY <1>2, <1>3 DEF Tmpl
<1> HIDE DEF T
<1>5. /\ tmpls' \in Seq(Tmpl) /\ DOMAIN tmpls' = DOMAIN tmpls \cup {new} /\ new \notin DOMAIN tmpls
      /\ \A n \in DOMAIN tmpls : tmpls'[n] = tmpls[n]
      /\ tmpls'[new] = T
  <2>1. tmpls \in Seq(Tmpl) /\ tmpls' = Append(tmpls, T)
    BY DEF IInv, T
  <2> QED BY <1>4, <2>1, AppendFacts
<1>6. /\ DOMAIN by_id' = DOMAIN by_id \cup {key} /\ by_id'[key] = [name |-> N, tmpl |-> new]
      /\ \A k \in DOMAIN by_id : k # key => by_id'[k] = by_id[k]
  <2>1. by_id' = Put(by_id, key, [name |-> N, tmpl |-> new])
    BY DEF Point, NewTmpl
  <2> HIDE DEF new, N
  <2>2. DOMAIN by_id' = DOMAIN by_id \cup {key}
    BY <2>1 DEF Put
  <2>3. by_id'[key] = [name |-> N, tmpl |-> new]
    BY <2>1 DEF Put
  <2>4. \A k \in DOMAIN by_id : k # key => by_id'[k] = by_id[k]
    BY <2>1 DEF Put
  <2> QED BY <2>2, <2>3, <2>4
<1>7. /\ DOMAIN by_name' = DOMAIN by_name \cup {N} /\ by_name'[N] = new
      /\ \A n \in DOMAIN by_name : n # N => by_name'[n] = by_name[n]
  <2>1. by_name' = Put(by_name, N, new)
    BY DEF NewTmpl
  <2> HIDE DEF new, N
  <2>2. DOMAIN by_name' = DOMAIN by_name \cup {N}
    BY <2>1 DEF Put
  <2>3. by_name'[N] = new
    BY <2>1 DEF Put
  <2>4. \A n \in DOMAIN by_name : n # N => by_name'[n] = by_name[n]
    BY <2>1 DEF Put
  <2> QED BY <2>2, <2>3, <2>4
<1>8. /\ key = IDKey(T.schema, T.tid) /\ by_id'[key].name = N /\ by_id'[key].tmpl = new
  BY <1>4, <1>6
<1> HIDE DEF new
<1>9. (tmpls \in Seq(Tmpl))'
  <2>1. Names' = Names
    BY DEF Names
  <2> QED BY <1>5, <2>1 DEF Tmpl
<1>10. (\A n \in DOMAIN tmpls : FromFiles(tmpls[n]))'
  <2>1. ASSUME NEW n \in DOMAIN tmpls'
        PROVE  \E i \in DOMAIN files : \E j \in DOMAIN files[i].msgs : tmpls'[n] = TmplOf(i, j)
    <3>1. CASE n \in DOMAIN tmpls
      BY <1>5, <3>1 DEF IInv, FromFiles
    <3>2. CASE n = new
      <4>1. at.msg \in DOMAIN files[at.file].msgs
        BY <1>1 DEF File
      <4> QED BY <1>1, <1>3, <1>5, <3>2, <4>1
    <3> QED BY <1>5, <3>1, <3>2
  <2> QED BY <2>1 DEF FromFiles, TmplOf
<1>11. ASSUME NEW k \in DOMAIN by_id, by_id[k].name = N
       PROVE  k = key
  <2>1. /\ by_id[k].tmpl \in DOMAIN tmpls /\ tmpls[by_id[k].tmpl].name = N
        /\ k = IDKey(tmpls[by_id[k].tmpl].schema, tmpls[by_id[k].tmpl].tid)
    BY <1>11 DEF IInv
  <2>2. at.msg \in DOMAIN files[at.file].msgs /\ N = files[at.file].msgs[at.msg].name
    BY <1>1 DEF File, Msg
  <2>3. tmpls[by_id[k].tmpl].schema = File.schema /\ tmpls[by_id[k].tmpl].tid = Msg.tid
    BY <1>1, <2>1, <2>2, OneKey DEF File, Msg
  <2> QED BY <2>1, <2>3
<1>12. ASSUME NEW k \in DOMAIN by_id'
       PROVE  LET t == tmpls'[by_id'[k].tmpl] IN
              /\ by_id'[k].tmpl \in DOMAIN tmpls' /\ t.name = by_id'[k].name
              /\ t.name \in DOMAIN by_name' /\ by_name'[t.name] = by_id'[k].tmpl
              /\ k = IDKey(t.schema, t.tid)
  <2>1. CASE k = key
    BY <1>4, <1>5, <1>7, <1>8, <2>1
  <2>2. CASE k \in DOMAIN by_id /\ k # key
    <3>1. by_id'[k] = by_id[k]
      BY <1>6, <2>2
    <3>2. by_id[k].name # N
      BY <1>11, <2>2
    <3>3. /\ by_id[k].tmpl \in DOMAIN tmpls /\ tmpls[by_id[k].tmpl].name = by_id[k].name
          /\ by_id[k].name \in DOMAIN by_name /\ by_name[by_id[k].name] = by_id[k].tmpl
          /\ k = IDKey(tmpls[by_id[k].tmpl].schema, tmpls[by_id[k].tmpl].tid)
      BY <2>2 DEF IInv
    <3> QED BY <1>5, <1>7, <3>1, <3>2, <3>3
  <2> QED BY <1>6, <2>1, <2>2
<1>13. ASSUME NEW n \in DOMAIN by_name'
       PROVE  LET t == tmpls'[by_name'[n]]
                  kk == IDKey(t.schema, t.tid)
              IN /\ by_name'[n] \in DOMAIN tmpls' /\ t.name = n
                 /\ kk \in DOMAIN by_id' /\ by_id'[kk].tmpl = by_name'[n]
  <2>1. CASE n = N
    BY <1>4, <1>5, <1>6, <1>7, <1>8, <2>1
  <2>2. CASE n \in DOMAIN by_name /\ n # N
    <3> DEFINE t == tmpls[by_name[n]]
               kk == IDKey(t.schema, t.tid)
    <3>1. /\ by_name[n] \in DOMAIN tmpls /\ t.name = n
          /\ kk \in DOMAIN by_id /\ by_id[kk].tmpl = by_name[n]
      BY <2>2 DEF IInv
    <3> HIDE DEF kk
    <3>2. by_id[kk].name = n
      <4>1. tmpls[by_id[kk].tmpl].name = by_id[kk].name
        BY <3>1 DEF IInv
      <4> QED BY <3>1, <4>1
    <3>3. kk # key
      BY <2>2, <3>1, <3>2 DEF Taken
    <3>4. by_name'[n] = by_name[n] /\ tmpls'[by_name[n]] = t /\ by_id'[kk] = by_id[kk]
      BY <1>5, <1>6, <1>7, <2>2, <3>1, <3>3
    <3>5. by_name[n] \in DOMAIN tmpls' /\ kk \in DOMAIN by_id' /\ by_id'[kk].tmpl = by_name[n]
      BY <1>5, <1>6, <3>1, <3>4
    <3> QED BY <3>1, <3>4, <3>5 DEF kk
  <2> QED BY <1>7, <2>1, <2>2
<1>14. ASSUME NEW i \in DOMAIN files', NEW j \in DOMAIN files'[i].msgs, Past(i, j)'
       PROVE  IsRegistered(i, j)'
  <2> DEFINE m == files[i].msgs[j]
             kk == IDKey(files[i].schema, m.tid)
  <2>1. SUFFICES ASSUME m.tid # None
                 PROVE  kk \in DOMAIN by_id' /\ by_id'[kk].name = m.name
    BY DEF IsRegistered
  <2>2. CASE Past(i, j)
    <3>1. kk \in DOMAIN by_id /\ by_id[kk].name = m.name
      BY <2>1, <2>2 DEF IInv, IsRegistered
    <3>2. kk = key => m.name = N
      BY <3>1 DEF Taken
    <3> QED BY <1>6, <1>8, <3>1, <3>2
  <2>3. CASE ~Past(i, j)
    <3>1. i = at.file /\ j = at.msg
      <4>1. i \in Nat /\ j \in Nat /\ at.file \in Nat /\ at.msg \in Nat
        BY <1>1 DEF FileSetOK, IInv
      <4>2. at'.file = at.file /\ at'.msg = at.msg + 1
        BY DEF IInv
      <4> QED BY <1>14, <2>3, <4>1, <4>2 DEF Past
    <3>2. m = Msg /\ files[i].schema = File.schema
      BY <3>1 DEF Msg, File
    <3> QED BY <1>6, <1>8, <3>2
  <2> QED BY <2>2, <2>3
<1>15. at' \in [file : Nat \ {0}, msg : Nat \ {0}] /\ files' \in FileSets
  BY DEF IInv
<1>16. st' = "running" /\ RefusedForCause'
  BY DEF RefusedForCause
<1> QED BY <1>9, <1>10, <1>12, <1>13, <1>14, <1>15, <1>16 DEF IInv

\* A message of another name has the key: the files hold the clash.
LEMMA ClashHasCause ==
  ASSUME IInv, NEW key, key = IDKey(File.schema, Msg.tid),
         at.file <= Len(files), at.msg <= Len(File.msgs), ~FileRefused,
         Msg.tid # None, Msg.tid <= MaxUint16, Taken(key), Refuse
  PROVE  RefusedForCause'
<1> DEFINE n == by_id[key].tmpl
           t == tmpls[n]
<1>1. /\ at.file \in DOMAIN files /\ at.msg \in DOMAIN File.msgs
      /\ File.schema \in Nat \cup {None} /\ Msg.tid \in Nat \cup {None}
  BY PlaceFacts
<1>2. File.schema \in 0 .. MaxUint16 /\ Msg.tid \in 0 .. MaxUint16
  <2>1. File.schema \in Nat /\ File.schema <= MaxUint16
    BY <1>1, RegistryAssumption DEF FileRefused
  <2>2. Msg.tid \in Nat
    BY <1>1
  <2> QED BY <2>1, <2>2, RegistryAssumption
<1>3. n \in DOMAIN tmpls /\ t.name = by_id[key].name /\ key = IDKey(t.schema, t.tid) /\ t.name # Msg.name
  BY DEF Taken, IInv
<1>4. t.schema \in 0 .. MaxUint16 /\ t.tid \in 0 .. MaxUint16
  <2>1. tmpls \in Seq(Tmpl)
    BY DEF IInv
  <2>2. t \in Tmpl
    BY <1>3, <2>1
  <2> QED BY <2>2 DEF Tmpl
<1>5. t.schema = File.schema /\ t.tid = Msg.tid
  BY <1>2, <1>3, <1>4, KeysDiffer
<1>6. PICK i \in DOMAIN files : \E k \in DOMAIN files[i].msgs : t = TmplOf(i, k)
  BY <1>3 DEF IInv, FromFiles
<1>7. PICK k \in DOMAIN files[i].msgs : t = TmplOf(i, k)
  BY <1>6
<1>8. /\ files[i].schema = files[at.file].schema
      /\ files[i].msgs[k].tid # None /\ files[i].msgs[k].tid = files[at.file].msgs[at.msg].tid
      /\ files[i].msgs[k].name # files[at.file].msgs[at.msg].name
  <2>1. /\ t.schema = files[i].schema
        /\ t.tid = files[i].msgs[k].tid
        /\ t.name = files[i].msgs[k].name
    <3> HIDE DEF t
    <3> QED BY <1>7 DEF TmplOf
  <2>2. File = files[at.file] /\ Msg = files[at.file].msgs[at.msg]
    BY DEF File, Msg
  <2> HIDE DEF t
  <2> QED BY <1>3, <1>5, <2>1, <2>2
<1>9. at.msg \in DOMAIN files[at.file].msgs /\ files' = files
  BY <1>1 DEF File, Refuse
<1> QED BY <1>1, <1>6, <1>7, <1>8, <1>9 DEF RefusedForCause

\* RegisterMessage.
LEMMA MessageStep ==
  ASSUME IInv, OnePool(files), RegisterMessage
  PROVE  IInv'
<1> DEFINE key == IDKey(File.schema, Msg.tid)
<1>1. /\ st = "running" /\ at.file <= Len(files) /\ ~FileRefused /\ at.msg <= Len(File.msgs)
  BY DEF RegisterMessage
<1>2. /\ at.file \in DOMAIN files /\ at.msg \in DOMAIN File.msgs /\ Msg.tid \in Nat \cup {None}
  BY <1>1, PlaceFacts
<1>3. at.msg \in DOMAIN files[at.file].msgs /\ Msg = files[at.file].msgs[at.msg]
  BY <1>2 DEF File, Msg
<1>4. CASE Msg.tid = None /\ Msg.stale /\ Refuse
  <2>1. RefusedForCause'
    BY <1>2, <1>3, <1>4 DEF RefusedForCause, Refuse
  <2> QED BY <1>4, <2>1, RefuseKeeps
<1>5. CASE /\ Msg.tid = None /\ ~Msg.stale
           /\ at' = [at EXCEPT !.msg = @ + 1]
           /\ UNCHANGED <<files, by_id, by_name, tmpls, st>>
  <2>1. /\ at' \in [file : Nat \ {0}, msg : Nat \ {0}] /\ at'.file = at.file /\ at'.msg = at.msg + 1
        /\ at.file \in Nat /\ at.msg \in Nat
    BY <1>5 DEF IInv
  <2>2. ASSUME NEW i \in DOMAIN files, NEW j \in DOMAIN files[i].msgs, Past(i, j)', ~Past(i, j)
        PROVE  IsRegistered(i, j)
    <3>1. i \in Nat /\ j \in Nat
      BY RegistryAssumption DEF IInv, FileSetOK
    <3>2. i = at.file /\ j = at.msg
      BY <2>1, <2>2, <3>1 DEF Past
    <3> QED BY <1>3, <1>5, <3>2 DEF IsRegistered
  <2>3. RefusedForCause' /\ st' = "running"
    BY <1>1, <1>5 DEF RefusedForCause
  <2> QED BY <1>5, <2>1, <2>2, <2>3, SameTables
<1>6. CASE Msg.tid # None /\ (~Msg.builds \/ Msg.tid > MaxUint16) /\ Refuse
  <2>1. RefusedForCause'
    BY <1>2, <1>3, <1>6 DEF RefusedForCause, Refuse
  <2> QED BY <1>6, <2>1, RefuseKeeps
<1>7. CASE Msg.tid # None /\ Msg.builds /\ Msg.tid <= MaxUint16 /\ Taken(key) /\ Refuse
  <2>1. RefusedForCause'
    BY <1>1, <1>7, ClashHasCause
  <2> QED BY <1>7, <2>1, RefuseKeeps
<1>8. CASE /\ Msg.tid # None /\ Msg.builds /\ Msg.tid <= MaxUint16
           /\ ~Taken(key)
           /\ tmpls' = Append(tmpls, [name |-> Msg.name, schema |-> File.schema, tid |-> Msg.tid])
           /\ Point(key, NewTmpl)
           /\ by_name' = Put(by_name, Msg.name, NewTmpl)
           /\ at' = [at EXCEPT !.msg = @ + 1]
           /\ UNCHANGED <<files, st>>
  <2> HIDE DEF key
  <2>1. key = IDKey(File.schema, Msg.tid)
    BY DEF key
  <2> QED BY <1>1, <1>8, <2>1, RegisterKeeps
<1> QED BY <1>4, <1>5, <1>6, <1>7, <1>8 DEF RegisterMessage

\* Every step of Codec::New keeps the inductive invariant.
LEMMA StepInv ==
  ASSUME \A fs \in FileSets : OnePool(fs)
  PROVE  IInv /\ [Next]_vars => IInv'
<1> SUFFICES ASSUME IInv, [Next]_vars PROVE IInv'
  OBVIOUS
<1>1. OnePool(files)
  BY DEF IInv
<1>2. CASE Next
  BY <1>1, <1>2, MessageStep, FileStep DEF Next
<1>3. CASE UNCHANGED vars
  <2>1. UNCHANGED <<files, by_id, by_name, tmpls>> /\ at' = at /\ st' = st
    BY <1>3 DEF vars
  <2>2. \A i \in DOMAIN files : \A j \in DOMAIN files[i].msgs : Past(i, j)' => Past(i, j)
    BY <2>1 DEF Past
  <2>3. RefusedForCause'
    BY <2>1 DEF IInv, RefusedForCause
  <2>4. /\ at' \in [file : Nat \ {0}, msg : Nat \ {0}] /\ st' \in {"running", "ok", "refused"}
        /\ st' = "ok" => at'.file > Len(files)
    BY <2>1 DEF IInv
  <2> QED BY <2>1, <2>2, <2>3, <2>4, SameTables
<1> QED BY <1>2, <1>3

\* What the inductive invariant says of the tables.
LEMMA Finds == IInv => FoundByItsIds
<1> SUFFICES ASSUME IInv PROVE FoundByItsIds
  OBVIOUS
<1>1. ASSUME NEW k \in DOMAIN by_id
      PROVE  LET t == tmpls[by_id[k].tmpl] IN
             /\ t.name = by_id[k].name /\ by_name[t.name] = by_id[k].tmpl
             /\ k = IDKey(t.schema, t.tid)
             /\ \A n \in DOMAIN by_name :
                  tmpls[by_name[n]].schema = t.schema /\ tmpls[by_name[n]].tid = t.tid => n = t.name
  <2> DEFINE t == tmpls[by_id[k].tmpl]
  <2>1. t.name = by_id[k].name /\ by_name[t.name] = by_id[k].tmpl /\ k = IDKey(t.schema, t.tid)
    BY DEF IInv
  <2>2. ASSUME NEW n \in DOMAIN by_name, tmpls[by_name[n]].schema = t.schema, tmpls[by_name[n]].tid = t.tid
        PROVE  n = t.name
    <3>1. IDKey(tmpls[by_name[n]].schema, tmpls[by_name[n]].tid) = k
      BY <2>1, <2>2
    <3>2. by_id[k].tmpl = by_name[n] /\ tmpls[by_name[n]].name = n
      BY <3>1 DEF IInv
    <3> QED BY <3>2
  <2> QED BY <2>1, <2>2
<1>2. ASSUME st = "ok", NEW i \in DOMAIN files, NEW j \in DOMAIN files[i].msgs
      PROVE  IsRegistered(i, j)
  <2>1. i \in Nat /\ i <= Len(files) /\ at.file > Len(files) /\ at.file \in Nat /\ Len(files) \in Nat
    BY <1>2, RegistryAssumption DEF IInv, FileSetOK
  <2>2. i < at.file
    BY <2>1
  <2> QED BY <2>2 DEF IInv, Past
<1> QED BY <1>1, <1>2 DEF FoundByItsIds, IsRegistered

\* A codec over the files of one descriptor pool reads a header's bytes with
\* the template of the message that has those ids, which by_name_ still owns,
\* and one that Codec::New returns finds every message it was given.
THEOREM FoundInOnePool == (\A fs \in FileSets : OnePool(fs)) => (Spec => []FoundByItsIds)
<1> SUFFICES ASSUME \A fs \in FileSets : OnePool(fs) PROVE Spec => []FoundByItsIds
  OBVIOUS
<1>1. IInv /\ [Next]_vars => IInv'
  BY StepInv
<1> QED BY <1>1, InitInv, Finds, PTL DEF Spec

\* Codec::New refuses the files of one descriptor pool only for a cause that
\* they hold.
THEOREM RefusalsHaveCause == (\A fs \in FileSets : OnePool(fs)) => (Spec => []RefusedForCause)
<1> SUFFICES ASSUME \A fs \in FileSets : OnePool(fs) PROVE Spec => []RefusedForCause
  OBVIOUS
<1>1. IInv /\ [Next]_vars => IInv'
  BY StepInv
<1>2. IInv => RefusedForCause
  BY DEF IInv
<1> QED BY <1>1, <1>2, InitInv, PTL DEF Spec
=============================================================================
