---------------------------- MODULE SbeRegistry ----------------------------
(***************************************************************************)
(* Codec::New: the messages of the files it is given are registered one    *)
(* after another, in by_name_, which owns their templates, and in by_id_,  *)
(* which points at them (sbe/codec.cc).  A template is told apart by the   *)
(* order it was built in; replacing the owner's entry frees it.            *)
(***************************************************************************)
EXTENDS Integers, Sequences, FiniteSets

CONSTANTS FileSets,   \* the arguments of Codec::New: sequences of files
          MaxUint16   \* kMaxUint16

None == -1    \* an option that is not set

\* A file is [schema, version, msgs]: its (sbe.schema_id) or None, its version
\* and its messages, each before the messages nested in it.  A message is
\* [name, tid, stale, builds]: its (sbe.template_id) or None, whether it has
\* one at the retired number, and whether BuildTemplate can lay it out.
FileSetOK(fs) ==
  /\ Len(fs) \in Nat /\ DOMAIN fs = 1 .. Len(fs)
  /\ \A i \in DOMAIN fs :
       /\ fs[i].schema \in Nat \cup {None} /\ fs[i].version \in Nat
       /\ Len(fs[i].msgs) \in Nat /\ DOMAIN fs[i].msgs = 1 .. Len(fs[i].msgs)
       /\ \A j \in DOMAIN fs[i].msgs : fs[i].msgs[j].tid \in Nat \cup {None}

ASSUME RegistryAssumption == MaxUint16 \in Nat /\ \A fs \in FileSets : FileSetOK(fs)

\* The files are of one DescriptorPool: a message of a name is one message, with
\* one template id, in one schema.
OnePool(fs) ==
  \A i, j \in DOMAIN fs : \A k \in DOMAIN fs[i].msgs : \A l \in DOMAIN fs[j].msgs :
    fs[i].msgs[k].name = fs[j].msgs[l].name =>
      fs[i].msgs[k] = fs[j].msgs[l] /\ fs[i].schema = fs[j].schema

VARIABLES files,    \* the argument
          at,       \* the next message: [file, msg]
          by_id,    \* by_id_: from keys to [name, tmpl]
          by_name,  \* by_name_: from names to templates
          tmpls,    \* the templates built: [name, schema, tid], by identity
          st        \* "running", "ok" or "refused"

vars == <<files, at, by_id, by_name, tmpls, st>>

Init == /\ files \in FileSets
        /\ at = [file |-> 1, msg |-> 1]
        /\ by_id = <<>> /\ by_name = <<>> /\ tmpls = <<>> /\ st = "running"

\* Wrong: the key is the template id alone.
IDKeyTemplateOnly(schema, tid) == tid

\* (schema_id << 16) | template_id, of two uint16s.
IDKey(schema, tid) == schema * (MaxUint16 + 1) + tid

Put(f, k, v) == [x \in DOMAIN f \cup {k} |-> IF x = k THEN v ELSE f[x]]

File == files[at.file]
Msg  == File.msgs[at.msg]

Refuse == st' = "refused" /\ UNCHANGED <<files, at, by_id, by_name, tmpls>>

\* New's checks of a file, before its first message.
FileRefused ==
  \/ File.schema = None
  \/ File.schema # None /\ File.schema > MaxUint16
  \/ File.version > MaxUint16

\* New goes on to the next file.
NextFile == /\ st = "running" /\ at.file <= Len(files)
            /\ ~FileRefused
            /\ at.msg > Len(File.msgs)
            /\ at' = [file |-> at.file + 1, msg |-> 1]
            /\ UNCHANGED <<files, by_id, by_name, tmpls, st>>

RefuseFile == st = "running" /\ at.file <= Len(files) /\ FileRefused /\ Refuse

Finish == /\ st = "running" /\ at.file > Len(files)
          /\ st' = "ok"
          /\ UNCHANGED <<files, at, by_id, by_name, tmpls>>

\* Wrong: the first message of a key is replaced by another.
TakenNever(key) == FALSE

\* Another message of this name has the key.
Taken(key) == key \in DOMAIN by_id /\ by_id[key].name # Msg.name

Point(key, t) == by_id' = Put(by_id, key, [name |-> Msg.name, tmpl |-> t])

\* The identity of the template BuildTemplate makes next.
NewTmpl == Len(tmpls) + 1

\* RegisterMessage, up to its recursion into the nested messages, which come
\* next in msgs.
RegisterMessage ==
  /\ st = "running" /\ at.file <= Len(files)
  /\ ~FileRefused
  /\ at.msg <= Len(File.msgs)
  /\ LET key == IDKey(File.schema, Msg.tid) IN
     \/ Msg.tid = None /\ Msg.stale /\ Refuse
     \/ /\ Msg.tid = None /\ ~Msg.stale
        /\ at' = [at EXCEPT !.msg = @ + 1]
        /\ UNCHANGED <<files, by_id, by_name, tmpls, st>>
     \/ /\ Msg.tid # None
        /\ ~Msg.builds \/ Msg.tid > MaxUint16   \* BuildTemplate refuses it
        /\ Refuse
     \/ /\ Msg.tid # None /\ Msg.builds /\ Msg.tid <= MaxUint16
        /\ Taken(key)
        /\ Refuse
     \/ /\ Msg.tid # None /\ Msg.builds /\ Msg.tid <= MaxUint16
        /\ ~Taken(key)
        /\ tmpls' = Append(tmpls, [name |-> Msg.name, schema |-> File.schema, tid |-> Msg.tid])
        /\ Point(key, NewTmpl)
        /\ by_name' = Put(by_name, Msg.name, NewTmpl)
        /\ at' = [at EXCEPT !.msg = @ + 1]
        /\ UNCHANGED <<files, st>>

Next == RegisterMessage \/ NextFile \/ RefuseFile \/ Finish
Spec == Init /\ [][Next]_vars
-----------------------------------------------------------------------------
Range(f) == {f[x] : x \in DOMAIN f}

\* A pointer in by_id_ is to a template by_name_ still owns: NewView, which
\* finds "a registered message ... by its schema id and template id together"
\* (sbe.h, Codec::by_id_), never reads a template that was freed.
PointsAtOwned ==
  \A k \in DOMAIN by_id : by_id[k].tmpl \in Range(by_name)

\* NewView and Unmarshal agree: the template found by a header's ids has those
\* ids, and is the one its message's name finds; no other message's bytes are
\* read with it.  A codec that New returns finds every message with a template
\* id of every file it was given so: no later file has taken one's place.
FoundByItsIds ==
  /\ \A k \in DOMAIN by_id :
       LET t == tmpls[by_id[k].tmpl] IN
       /\ t.name = by_id[k].name /\ by_name[t.name] = by_id[k].tmpl
       /\ k = IDKey(t.schema, t.tid)
       /\ \A n \in DOMAIN by_name :
            tmpls[by_name[n]].schema = t.schema /\ tmpls[by_name[n]].tid = t.tid => n = t.name
  /\ st = "ok" =>
       \A i \in DOMAIN files : \A j \in DOMAIN files[i].msgs :
         LET m == files[i].msgs[j]
             key == IDKey(files[i].schema, m.tid)
         IN m.tid # None => key \in DOMAIN by_id /\ by_id[key].name = m.name

\* New refuses files only for cause: one without the ids the header can state,
\* a message it has no template for, or two messages of different names with
\* one template id in one schema.  The same file given twice, and one template
\* id in two schemas, are no cause.
RefusedForCause ==
  st = "refused" =>
    \/ \E i \in DOMAIN files :
         \/ files[i].schema \notin 0 .. MaxUint16 \/ files[i].version \notin 0 .. MaxUint16
         \/ \E j \in DOMAIN files[i].msgs :
              LET m == files[i].msgs[j] IN
              \/ m.tid = None /\ m.stale
              \/ m.tid # None /\ (~m.builds \/ m.tid > MaxUint16)
    \/ \E i, j \in DOMAIN files :
         \E k \in DOMAIN files[i].msgs : \E l \in DOMAIN files[j].msgs :
           /\ files[i].schema = files[j].schema
           /\ files[i].msgs[k].tid # None /\ files[i].msgs[k].tid = files[j].msgs[l].tid
           /\ files[i].msgs[k].name # files[j].msgs[l].name
-----------------------------------------------------------------------------
(* The inductive invariant behind them.                                    *)

\* The template of the j-th message of the i-th file.
TmplOf(i, j) == [name |-> files[i].msgs[j].name, schema |-> files[i].schema, tid |-> files[i].msgs[j].tid]

\* Every template is of a message of the files, with ids a header can state.
Names == UNION {{files[i].msgs[j].name : j \in DOMAIN files[i].msgs} : i \in DOMAIN files}
Tmpl == [name : Names, schema : 0 .. MaxUint16, tid : 0 .. MaxUint16]
FromFiles(t) == \E i \in DOMAIN files : \E j \in DOMAIN files[i].msgs : t = TmplOf(i, j)

\* New has been past the j-th message of the i-th file.
Past(i, j) == i < at.file \/ (i = at.file /\ j < at.msg)

IsRegistered(i, j) ==
  LET m == files[i].msgs[j]
      key == IDKey(files[i].schema, m.tid)
  IN m.tid # None => key \in DOMAIN by_id /\ by_id[key].name = m.name

IInv ==
  /\ files \in FileSets
  /\ at \in [file : Nat \ {0}, msg : Nat \ {0}]
  /\ tmpls \in Seq(Tmpl)
  /\ \A n \in DOMAIN tmpls : FromFiles(tmpls[n])
  /\ \A k \in DOMAIN by_id :
       LET t == tmpls[by_id[k].tmpl] IN
       /\ by_id[k].tmpl \in DOMAIN tmpls /\ t.name = by_id[k].name
       /\ t.name \in DOMAIN by_name /\ by_name[t.name] = by_id[k].tmpl
       /\ k = IDKey(t.schema, t.tid)
  /\ \A n \in DOMAIN by_name :
       LET t == tmpls[by_name[n]]
           key == IDKey(t.schema, t.tid)
       IN /\ by_name[n] \in DOMAIN tmpls /\ t.name = n
          /\ key \in DOMAIN by_id /\ by_id[key].tmpl = by_name[n]
  /\ \A i \in DOMAIN files : \A j \in DOMAIN files[i].msgs : Past(i, j) => IsRegistered(i, j)
  /\ st \in {"running", "ok", "refused"} /\ (st = "ok" => at.file > Len(files))
  /\ RefusedForCause
=============================================================================
