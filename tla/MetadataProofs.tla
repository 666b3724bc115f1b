---------------------------- MODULE MetadataProofs ---------------------------
(***************************************************************************)
(* Proofs about the main thread of the delegator's metadata path           *)
(* (src/server/src/unifycr_metadata.c): when no request manager thread     *)
(* runs meta_batch_get concurrently and every client's write index fits   *)
(* in unifycr_keys (MAX_META_PER_SEND), meta_process_fsync and the        *)
(* set/get calls of the metadata API keep the KV store holding only what  *)
(* the clients flushed, each in its own index, and every entry a call     *)
(* reported stored is in the store; no key buffer is overrun.  This holds *)
(* for any number of clients, servers, failing servers and calls.         *)
(***************************************************************************)
EXTENDS Metadata, SequenceTheorems, TLAPS

\* The main thread runs alone, and no write index overruns unifycr_keys.
Alone ==
  /\ ReadClients = {}
  /\ \A c \in FsyncClients : Len(Index[c]) <= MaxMeta

\* The inductive invariant.
MInv == TypeOK /\ NoOverflow /\ StoredAreFlushed /\ FlushedAreStored /\ FlushInv

\* What the clients hand over is well typed.
LEMMA EntriesType ==
  ASSUME NEW c \in Clients
  PROVE  /\ ExtEntries(c) \subseteq StoredEntry
         /\ AttrEntries(c) \subseteq StoredEntry
         /\ \A j \in 0 .. Len(Index[c]) - 1 : IndexKey(c, j) \in Key
  <1>1. Index[c] \in Seq([fid : Nat, pos : Nat, mem : Nat, len : Nat])
        /\ Attrs[c] \in Seq(Nat)
    BY InputAssumption
  <1>2. \A j \in 0 .. Len(Index[c]) - 1 :
          Index[c][j + 1] \in [fid : Nat, pos : Nat, mem : Nat, len : Nat]
    <2> SUFFICES ASSUME NEW j \in 0 .. Len(Index[c]) - 1
                 PROVE  Index[c][j + 1] \in [fid : Nat, pos : Nat, mem : Nat, len : Nat]
      OBVIOUS
    <2>1. j + 1 \in 1 .. Len(Index[c])
      BY <1>1, LenProperties
    <2>2. QED
      BY <1>1, <2>1, ElementOfSeq
  <1>3. \A j \in 0 .. Len(Index[c]) - 1 : IndexKey(c, j) \in Key
    BY <1>2 DEF IndexKey, Key
  <1>4. ExtEntries(c) \subseteq StoredEntry
    BY <1>2, <1>3 DEF ExtEntries, Entry, StoredEntry, IndexKey, Key
  <1>5. AttrEntries(c) \subseteq StoredEntry
    BY <1>1 DEF AttrEntries, Entry, StoredEntry
  <1>6. QED
    BY <1>3, <1>4, <1>5

THEOREM MInvInit == Init => MInv
  <1> SUFFICES ASSUME Init PROVE MInv
    OBVIOUS
  <1>1. TypeOK
    <2>1. keys \in [Slots -> Key] /\ store \in [{0, 1} -> SUBSET StoredEntry]
      BY InputAssumption DEF Init, ZeroKey, Key
    <2>2. bgrm \in Seq(Reply)
      BY DEF Init
    <2>3. gets \in 0 .. MaxCalls /\ calls \in 0 .. MaxCalls
      BY ConstAssumption DEF Init
    <2>4. /\ primaryIndex \in {0, 1} /\ overflow \in BOOLEAN
          /\ mpc = "idle" /\ fcli \in Clients \cup {NoClient} /\ acked \subseteq StoredEntry
          /\ aret.rc \in {0, UNIFYCR_ERROR_MDHIM} /\ xret.rc \in {0, UNIFYCR_ERROR_MDHIM}
      BY DEF Init, MainReturn
    <2>5. /\ rpc \in [Clients -> {"idle", "index", "call", "loop"}]
          /\ rc \in [Clients -> {0, UNIFYCR_ERROR_MDHIM}]
          /\ tot \in [Clients -> Nat]
      BY DEF Init
    <2>6. QED
      BY <2>1, <2>2, <2>3, <2>4, <2>5 DEF TypeOK
  <1>2. NoOverflow /\ StoredAreFlushed /\ FlushedAreStored /\ FlushInv
    BY DEF Init, MainReturn, NoOverflow, StoredAreFlushed, FlushedAreStored, FlushInv
  <1>3. QED
    BY <1>1, <1>2 DEF MInv

\* meta_process_fsync, lines 257-291: the key buffer gets c's keys, which
\* fit, and index 0 is selected.
LEMMA FillStep ==
  ASSUME MInv, Alone, NEW c \in FsyncClients, FsyncFill(c)
  PROVE  MInv'
  <1>1. /\ c \in Clients /\ Len(Index[c]) <= MaxMeta /\ Len(Index[c]) \in Nat
        /\ MaxMeta \in Nat /\ MaxCalls \in Nat
    BY ConstAssumption, InputAssumption DEF Alone
  <1>2. \A j \in 0 .. Len(Index[c]) - 1 : j \in Slots /\ keys'[j] = IndexKey(c, j)
    BY <1>1 DEF FsyncFill, Slots
  <1>3. keys' \in [Slots -> Key]
    <2>1. \A j \in 0 .. Len(Index[c]) - 1 : IndexKey(c, j) \in Key
      BY <1>1, EntriesType
    <2>2. QED
      BY <1>1, <2>1 DEF FsyncFill, MInv, TypeOK, Slots
  <1>4. overflow' = FALSE /\ calls' \in 0 .. MaxCalls /\ calls' = calls + 1
    BY <1>1 DEF FsyncFill, MainCall, MainIdle, MInv, TypeOK, NoOverflow
  <1>5. TypeOK'
    BY <1>1, <1>3, <1>4 DEF FsyncFill, MainCall, MainIdle, MInv, TypeOK, rmVars
  <1>6. FlushInv'
    BY <1>2, <1>4 DEF FsyncFill, MainCall, MainIdle, MInv, TypeOK, FlushInv
  <1>7. QED
    BY <1>4, <1>5, <1>6
       DEF FsyncFill, MInv, NoOverflow, StoredAreFlushed, FlushedAreStored

\* The extents the fsync puts are c's write index entries, as stored.
LEMMA FsyncIsExt ==
  ASSUME MInv, mpc \in {"put1", "fill2", "put2"}
  PROVE  /\ fcli \in FsyncClients
         /\ FsyncExtents(fcli) = ExtEntries(fcli)
         /\ FsyncExtents(fcli) \subseteq StoredEntry
  <1>1. fcli \in FsyncClients /\ fcli \in Clients
    BY ConstAssumption DEF MInv, FlushInv
  <1>2. FsyncExtents(fcli) = ExtEntries(fcli)
    BY <1>1 DEF MInv, FlushInv, FsyncExtents, ExtEntries
  <1>3. QED
    BY <1>1, <1>2, EntriesType

\* mdhimBPut stores a part of what it is given, and all of it when no
\* reply reports a failure.
LEMMA PutFacts ==
  ASSUME NEW ents, NEW failed
  PROVE  /\ PutStored(ents, failed) \subseteq ents
         /\ ~PutFails(ents, failed) => PutStored(ents, failed) = ents
  BY DEF PutStored, PutFails

\* meta_process_fsync, lines 295-315: the extents go into index 0, which
\* the fsync selected; ret stays 0 only if every server stored its part.
LEMMA Put1Step ==
  ASSUME MInv, FsyncPut1
  PROVE  MInv'
  <1> DEFINE ents == FsyncExtents(fcli)
  <1>1. mpc = "put1" /\ primaryIndex = 0
    BY DEF FsyncPut1, MInv, FlushInv
  <1>2. fcli \in FsyncClients /\ ents = ExtEntries(fcli) /\ ents \subseteq StoredEntry
    BY <1>1, FsyncIsExt
  <1>3. PICK failed \in FailedSets :
          /\ store' = [store EXCEPT ![0] = @ \cup PutStored(ents, failed)]
          /\ fret' = IF PutFails(ents, failed) THEN UNIFYCR_ERROR_MDHIM ELSE 0
    BY <1>1 DEF FsyncPut1, PutInto
  <1>4. /\ store'[0] = store[0] \cup PutStored(ents, failed)
        /\ store'[1] = store[1]
        /\ store' \in [{0, 1} -> SUBSET StoredEntry]
    BY <1>2, <1>3, PutFacts DEF MInv, TypeOK
  <1>5. fret' = 0 => ents \subseteq store'[0]
    <2>1. fret' = 0 => ~PutFails(ents, failed)
      BY <1>3 DEF UNIFYCR_ERROR_MDHIM
    <2>2. QED
      BY <1>4, <2>1, PutFacts
  <1>6. TypeOK'
    BY <1>1, <1>4 DEF FsyncPut1, MInv, TypeOK, rmVars
  <1>7. StoredAreFlushed'
    BY <1>2, <1>4, PutFacts DEF FsyncPut1, MInv, StoredAreFlushed
  <1>8. FlushedAreStored'
    BY <1>4 DEF FsyncPut1, MInv, FlushedAreStored
  <1>9. FlushInv'
    <2>1. UNCHANGED <<keys, fcli, gets, calls>> /\ mpc' = "fill2"
      BY DEF FsyncPut1
    <2>2. FsyncExtents(fcli)' = ents
      BY <2>1 DEF FsyncExtents
    <2>3. QED
      BY <1>1, <1>5, <2>1, <2>2 DEF MInv, FlushInv
  <1>10. QED
    BY <1>6, <1>7, <1>8, <1>9 DEF FsyncPut1, MInv, NoOverflow

\* meta_process_fsync, lines 317-337: index 1 is selected.
LEMMA AttrFillStep ==
  ASSUME MInv, FsyncAttrFill
  PROVE  MInv'
  <1>1. UNCHANGED <<keys, store, fcli, fret, gets, calls>>
        /\ mpc = "fill2" /\ mpc' = "put2" /\ primaryIndex' = 1
    BY DEF FsyncAttrFill
  <1>2. FsyncExtents(fcli)' = FsyncExtents(fcli)
    BY <1>1 DEF FsyncExtents
  <1>3. FlushInv'
    BY <1>1, <1>2 DEF MInv, FlushInv
  <1>4. TypeOK'
    BY <1>1 DEF FsyncAttrFill, MInv, TypeOK, rmVars
  <1>5. QED
    BY <1>3, <1>4 DEF FsyncAttrFill, MInv, NoOverflow, StoredAreFlushed,
       FlushedAreStored

\* meta_process_fsync, lines 339-361: the attributes go into index 1, and
\* success is reported only if both puts succeeded, for entries then stored.
LEMMA Put2Step ==
  ASSUME MInv, FsyncPut2
  PROVE  MInv'
  <1> DEFINE ents == AttrEntries(fcli)
             exts == FsyncExtents(fcli)
  <1>1. mpc = "put2" /\ primaryIndex = 1 /\ (fret = 0 => exts \subseteq store[0])
    BY DEF FsyncPut2, MInv, FlushInv
  <1>2. /\ fcli \in FsyncClients /\ fcli \in Clients
        /\ exts = ExtEntries(fcli) /\ exts \subseteq StoredEntry
        /\ ents \subseteq StoredEntry
    BY <1>1, FsyncIsExt, EntriesType, ConstAssumption
  <1>3. PICK failed \in FailedSets :
          /\ store' = [store EXCEPT ![1] = @ \cup PutStored(ents, failed)]
          /\ acked' = IF fret = 0 /\ ~PutFails(ents, failed)
                      THEN acked \cup exts \cup ents ELSE acked
    BY <1>1 DEF FsyncPut2, PutInto
  <1>4. /\ store'[1] = store[1] \cup PutStored(ents, failed)
        /\ store'[0] = store[0]
        /\ store' \in [{0, 1} -> SUBSET StoredEntry]
    BY <1>2, <1>3, PutFacts DEF MInv, TypeOK
  <1>5. TypeOK'
    <2>1. acked' \subseteq StoredEntry
      BY <1>2, <1>3 DEF MInv, TypeOK
    <2>2. QED
      BY <1>4, <2>1 DEF FsyncPut2, MainReturn, MInv, TypeOK, rmVars
  <1>6. StoredAreFlushed'
    BY <1>2, <1>4, PutFacts DEF MInv, StoredAreFlushed
  <1>7. FlushedAreStored'
    <2>1. \A e \in exts : e.kind = "ext"
      BY DEF FsyncExtents, Entry
    <2>2. \A e \in ents : e.kind = "attr"
      BY DEF AttrEntries, Entry
    <2>3. fret = 0 /\ ~PutFails(ents, failed) => ents \subseteq store'[1]
      BY <1>4, PutFacts
    <2>4. QED
      BY <1>1, <1>3, <1>4, <2>1, <2>2, <2>3 DEF MInv, FlushedAreStored
  <1>8. FlushInv'
    BY DEF FsyncPut2, MainReturn, MInv, FlushInv
  <1>9. QED
    BY <1>5, <1>6, <1>7, <1>8 DEF FsyncPut2, MInv, NoOverflow

\* unifycr_set_file_attribute(s) and unifycr_set_file_extents, lines 562,
\* 585 and 702: a call for a client of the API selects its index.
LEMMA SetIndexStep ==
  ASSUME MInv, NEW c \in SetClients,
         \/ \E j \in 1 .. Len(Attrs[c]) : SetAttrIndex(c, Attrs[c][j])
         \/ SetAttrsIndex(c)
         \/ SetExtIndex(c)
  PROVE  MInv'
  <1>1. /\ c \in Clients /\ mpc = "idle" /\ calls < MaxCalls
        /\ calls' = calls + 1 /\ fcli' = c
        /\ UNCHANGED <<keys, bgrm, gets, store, overflow, fret, acked,
                       aret, xret, rmVars>>
    <2>1. c \in Clients
      BY ConstAssumption
    <2>2. CASE \E j \in 1 .. Len(Attrs[c]) : SetAttrIndex(c, Attrs[c][j])
      BY <2>1, <2>2 DEF SetAttrIndex, MainCall, MainIdle
    <2>3. CASE SetAttrsIndex(c)
      BY <2>1, <2>3 DEF SetAttrsIndex, MainCall, MainIdle
    <2>4. CASE SetExtIndex(c)
      BY <2>1, <2>4 DEF SetExtIndex, MainCall, MainIdle
    <2>5. QED
      BY <2>2, <2>3, <2>4
  <1>2. /\ mpc' \in {"setattr", "setattrs", "setext"}
        /\ mpc' \in {"setattr", "setattrs"} => primaryIndex' = 1
        /\ mpc' = "setext" => primaryIndex' = 0
        /\ mpc' = "setattr" => \E j \in 1 .. Len(Attrs[c]) : marg' = Attrs[c][j]
    BY DEF SetAttrIndex, SetAttrsIndex, SetExtIndex, MainCall, MainIdle
  <1>3. calls' \in 0 .. MaxCalls
    BY <1>1, ConstAssumption DEF MInv, TypeOK
  <1>4. TypeOK'
    BY <1>1, <1>2, <1>3 DEF MInv, TypeOK, rmVars
  <1>5. FlushInv'
    BY <1>1, <1>2, <1>3 DEF MInv, TypeOK, FlushInv
  <1>6. QED
    BY <1>1, <1>4, <1>5 DEF MInv, NoOverflow, StoredAreFlushed, FlushedAreStored

\* A put whose replies are checked: it stores a part of ents in the index
\* md->primary_index names, and all of ents when it reports success.
LEMMA PutAckedFacts ==
  ASSUME NEW ents, PutAcked(ents)
  PROVE  \E S \in SUBSET ents :
           /\ store' = [store EXCEPT ![primaryIndex] = @ \cup S]
           /\ \/ acked' = acked
              \/ acked' = acked \cup ents /\ S = ents
  <1>1. PICK failed \in FailedSets :
          /\ store' = [store EXCEPT ![primaryIndex] = @ \cup PutStored(ents, failed)]
          /\ acked' = IF PutFails(ents, failed) THEN acked ELSE acked \cup ents
    BY DEF PutAcked, PutInto
  <1>2. QED
    BY <1>1, PutFacts

\* The return of a set call: its entries, flushed by its client and all of
\* the kind of the index it selected, are put and the main thread idles.
LEMMA SetReturn ==
  ASSUME MInv, NEW ents, NEW k \in {0, 1},
         fcli \in SetClients, fcli \in Clients, primaryIndex = k,
         ents \subseteq (IF k = 0 THEN ExtEntries(fcli) ELSE AttrEntries(fcli)),
         PutAcked(ents), MainReturn,
         UNCHANGED <<keys, primaryIndex, bgrm, gets, overflow, calls,
                     marg, fret, aret, xret, rmVars>>
  PROVE  MInv'
  <1>1. /\ ents \subseteq StoredEntry
        /\ \A e \in ents : e.kind = IF k = 0 THEN "ext" ELSE "attr"
    BY EntriesType DEF ExtEntries, AttrEntries, Entry
  <1>2. PICK S \in SUBSET ents :
          /\ store' = [store EXCEPT ![k] = @ \cup S]
          /\ \/ acked' = acked
             \/ acked' = acked \cup ents /\ S = ents
    BY PutAckedFacts
  <1>3. /\ store'[k] = store[k] \cup S
        /\ store'[1 - k] = store[1 - k]
        /\ store' \in [{0, 1} -> SUBSET StoredEntry]
    BY <1>1, <1>2 DEF MInv, TypeOK
  <1>4. TypeOK'
    BY <1>1, <1>2, <1>3 DEF MainReturn, MInv, TypeOK, rmVars
  <1>5. StoredAreFlushed'
    <2>1. CASE k = 0
      BY <2>1, <1>3 DEF MInv, StoredAreFlushed
    <2>2. CASE k = 1
      BY <2>2, <1>3 DEF MInv, StoredAreFlushed
    <2>3. QED
      BY <2>1, <2>2
  <1>6. FlushedAreStored'
    <2> SUFFICES ASSUME NEW e \in acked'
                 PROVE  e \in store'[IF e.kind = "ext" THEN 0 ELSE 1]
      BY DEF FlushedAreStored
    <2>1. CASE e \in acked
      <3>1. e \in store[IF e.kind = "ext" THEN 0 ELSE 1]
        BY <2>1 DEF MInv, FlushedAreStored
      <3>2. QED
        BY <3>1, <1>3
    <2>2. CASE e \notin acked
      <3>1. e \in ents /\ S = ents
        BY <2>2, <1>2
      <3>2. QED
        BY <3>1, <1>1, <1>3
    <2>3. QED
      BY <2>1, <2>2
  <1>7. FlushInv'
    BY DEF MainReturn, MInv, FlushInv
  <1>8. QED
    BY <1>4, <1>5, <1>6, <1>7 DEF MInv, NoOverflow

\* Lines 563-573, 586-605 and 704-725: the caller's entries go into the
\* index the call selected; success is reported only when all are stored.
LEMMA SetPutStep ==
  ASSUME MInv, SetPut
  PROVE  MInv'
  <1>1. /\ fcli \in SetClients /\ fcli \in Clients
        /\ MainReturn
        /\ UNCHANGED <<keys, primaryIndex, bgrm, gets, overflow, calls,
                       marg, fret, aret, xret, rmVars>>
    BY ConstAssumption DEF SetPut, MInv, FlushInv
  <1>2. CASE mpc = "setattr"
             /\ PutAcked({Entry("attr", [fid |-> marg, offset |-> 0], fcli, 0, 0)})
    <2>1. PICK j \in 1 .. Len(Attrs[fcli]) : marg = Attrs[fcli][j]
      BY <1>2 DEF MInv, FlushInv
    <2>2. {Entry("attr", [fid |-> marg, offset |-> 0], fcli, 0, 0)} \subseteq AttrEntries(fcli)
      BY <2>1 DEF AttrEntries
    <2>3. primaryIndex = 1
      BY <1>2 DEF MInv, FlushInv
    <2>4. QED
      BY <1>1, <1>2, <2>2, <2>3, SetReturn
  <1>3. CASE mpc = "setattrs" /\ PutAcked(AttrEntries(fcli))
    <2>1. primaryIndex = 1
      BY <1>3 DEF MInv, FlushInv
    <2>2. QED
      BY <1>1, <1>3, <2>1, SetReturn
  <1>4. CASE mpc = "setext" /\ PutAcked(ExtEntries(fcli))
    <2>1. primaryIndex = 0
      BY <1>4 DEF MInv, FlushInv
    <2>2. QED
      BY <1>1, <1>4, <2>1, SetReturn
  <1>5. QED
    BY <1>2, <1>3, <1>4 DEF SetPut

\* unifycr_get_file_attribute and unifycr_get_file_extents, lines 619 and
\* 654: a get is counted as a call and selects its index.
LEMMA GetIndexStep ==
  ASSUME MInv,
         \/ \E g \in AttrGets : GetAttrIndex(g)
         \/ \E req \in ExtGets : GetExtIndex(req)
  PROVE  MInv'
  <1>1. /\ mpc = "idle" /\ calls < MaxCalls
        /\ calls' = calls + 1 /\ fcli' = NoClient
        /\ mpc' \in {"getattr", "getext"} /\ primaryIndex' \in {0, 1}
        /\ mpc' = "getattr" => marg' \in AttrGets
        /\ UNCHANGED <<keys, bgrm, gets, store, overflow, fret, acked,
                       aret, xret, rmVars>>
    BY DEF GetAttrIndex, GetExtIndex, MainCall, MainIdle
  <1>2. calls' \in 0 .. MaxCalls
    BY <1>1, ConstAssumption DEF MInv, TypeOK
  <1>3. TypeOK'
    BY <1>1, <1>2 DEF MInv, TypeOK, rmVars
  <1>4. FlushInv'
    BY <1>1, <1>2 DEF MInv, TypeOK, FlushInv
  <1>5. QED
    BY <1>1, <1>3, <1>4 DEF MInv, NoOverflow, StoredAreFlushed, FlushedAreStored

\* The server a key is sharded to is one of the metadata servers.
LEMMA ShardServer ==
  ASSUME NEW e, e.fid \in Nat, e.offset \in Nat
  PROVE  Shard(e) \in Servers
  BY ConstAssumption DEF Shard, Servers

\* Lines 620-621: the one reply of the point get has the id of the get the
\* main thread counts now, and carries stored attributes.
LEMMA GetAttrCallStep ==
  ASSUME MInv, GetAttrCall
  PROVE  MInv'
  <1> DEFINE s == Shard([fid |-> marg, offset |-> 0])
             hit == {e \in store[primaryIndex] : e.fid = marg /\ Shard(e) = s}
  <1>1. /\ mpc = "getattr" /\ mpc' = "readattr" /\ gets' = gets + 1
        /\ UNCHANGED <<keys, primaryIndex, store, overflow, calls,
                       fcli, marg, fret, acked, aret, xret, rmVars>>
    BY DEF GetAttrCall
  <1>2. PICK failed \in FailedSets :
          bgrm' = << [id |-> <<gets + 1, s>>, srv |-> s, err |-> s \in failed \/ hit = {},
                      ents |-> IF s \in failed THEN {} ELSE hit] >>
    BY DEF GetAttrCall
  <1>3. s \in Servers
    <2>1. marg \in Nat
      BY <1>1, InputAssumption DEF MInv, FlushInv
    <2>2. QED
      BY <2>1, ShardServer
  <1>4. /\ gets + 1 \in 0 .. MaxCalls
        /\ gets + 1 <= calls
    BY <1>1, ConstAssumption DEF MInv, TypeOK, FlushInv
  <1>5. hit \subseteq StoredEntry
    BY DEF MInv, TypeOK
  <1>6. bgrm' \in Seq(Reply)
    BY <1>2, <1>3, <1>4, <1>5 DEF Reply, ReplyId
  <1>7. TypeOK'
    BY <1>1, <1>4, <1>6 DEF MInv, TypeOK, rmVars
  <1>8. FlushInv'
    BY <1>1, <1>4 DEF MInv, FlushInv
  <1>9. QED
    BY <1>1, <1>7, <1>8 DEF MInv, NoOverflow, StoredAreFlushed, FlushedAreStored

\* Lines 623-635: the attribute get returns and releases its reply.
LEMMA GetAttrReadStep ==
  ASSUME MInv, GetAttrRead
  PROVE  MInv'
  <1>1. /\ MainReturn
        /\ UNCHANGED <<keys, primaryIndex, bgrm, gets, store, overflow, calls,
                       marg, fret, acked, xret, rmVars>>
        /\ aret'.rc \in {0, UNIFYCR_ERROR_MDHIM}
    BY DEF GetAttrRead
  <1>3. TypeOK'
    BY <1>1, ConstAssumption DEF MainReturn, MInv, TypeOK, rmVars
  <1>4. FlushInv'
    BY <1>1 DEF MainReturn, MInv, FlushInv
  <1>5. QED
    BY <1>1, <1>3, <1>4 DEF MInv, NoOverflow, StoredAreFlushed, FlushedAreStored

\* mdhimBGet's chain has one reply per server, each of stored entries.
LEMMA RangeGetType ==
  ASSUME TypeOK, NEW idx \in {0, 1}, NEW pairs, NEW failed, NEW g \in 0 .. MaxCalls
  PROVE  RangeGet(idx, pairs, failed, g) \in Seq(Reply)
  <1>1. NumServers \in Nat
    BY ConstAssumption
  <1>2. \A i \in 1 .. NumServers : i - 1 \in Servers
    BY <1>1 DEF Servers
  <1>3. store[idx] \subseteq StoredEntry
    BY DEF TypeOK
  <1>4. RangeGet(idx, pairs, failed, g) \in [1 .. NumServers -> Reply]
    BY <1>2, <1>3 DEF RangeGet, Reply, ReplyId
  <1>5. QED
    BY <1>1, <1>4

\* Lines 655-658: the range get has the id of the get the main thread
\* counts now; rc and tot_num start at 0.
LEMMA GetExtCallStep ==
  ASSUME MInv, GetExtCall
  PROVE  MInv'
  <1>1. /\ mpc = "getext" /\ mpc' = "readext" /\ gets' = gets + 1
        /\ xret'.rc = 0
        /\ UNCHANGED <<keys, primaryIndex, store, overflow, calls,
                       fcli, marg, fret, acked, aret, rmVars>>
    BY DEF GetExtCall
  <1>2. /\ gets + 1 \in 0 .. MaxCalls
        /\ gets + 1 <= calls
    BY <1>1, ConstAssumption DEF MInv, TypeOK, FlushInv
  <1>3. bgrm' \in Seq(Reply)
    <2>1. PICK pairs : \E failed \in FailedSets :
            bgrm' = RangeGet(primaryIndex, pairs, failed, gets + 1)
      BY DEF GetExtCall
    <2>2. PICK failed \in FailedSets :
            bgrm' = RangeGet(primaryIndex, pairs, failed, gets + 1)
      BY <2>1
    <2>3. QED
      BY <2>2, <1>2, RangeGetType DEF MInv, TypeOK
  <1>4. TypeOK'
    BY <1>1, <1>2, <1>3 DEF MInv, TypeOK, rmVars
  <1>5. FlushInv'
    BY <1>1, <1>2 DEF MInv, FlushInv
  <1>6. QED
    BY <1>1, <1>4, <1>5 DEF MInv, NoOverflow, StoredAreFlushed, FlushedAreStored

\* Lines 663-685: one pass of the loop over the replies.
LEMMA GetExtStepStep ==
  ASSUME MInv, GetExtStep
  PROVE  MInv'
  <1>1. /\ mpc = "readext" /\ bgrm # << >>
        /\ UNCHANGED <<keys, primaryIndex, gets, store, overflow, calls, mpc, fcli,
                       marg, fret, acked, aret, rmVars>>
        /\ xret'.rc \in {0, UNIFYCR_ERROR_MDHIM}
    BY DEF GetExtStep, MInv, TypeOK
  <1>2. Head(bgrm) \in Reply /\ Tail(bgrm) \in Seq(Reply)
    BY <1>1 DEF MInv, TypeOK
  <1>3. bgrm' \in Seq(Reply)
    BY <1>2 DEF GetExtStep
  <1>4. TypeOK'
    BY <1>1, <1>3 DEF MInv, TypeOK, rmVars
  <1>5. FlushInv'
    BY <1>1 DEF MInv, FlushInv
  <1>6. QED
    BY <1>1, <1>4, <1>5 DEF MInv, NoOverflow, StoredAreFlushed, FlushedAreStored

\* Lines 686-690: the extents get returns.
LEMMA GetExtEndStep ==
  ASSUME MInv, GetExtEnd
  PROVE  MInv'
  <1>1. /\ MainReturn
        /\ UNCHANGED <<keys, primaryIndex, bgrm, gets, store, overflow,
                       calls, marg, fret, acked, aret, xret, rmVars>>
    BY DEF GetExtEnd, shared
  <1>2. TypeOK'
    BY <1>1 DEF MainReturn, MInv, TypeOK, rmVars
  <1>3. FlushInv'
    BY <1>1 DEF MainReturn, MInv, FlushInv
  <1>4. QED
    BY <1>1, <1>2, <1>3 DEF MInv, NoOverflow, StoredAreFlushed, FlushedAreStored

\* Every step of the main thread, running alone, keeps MInv: one case per
\* operation of meta_process_fsync and of the attribute and extent API; a
\* request manager has no step when no client reads.
THEOREM MInvStep ==
  ASSUME Alone
  PROVE  MInv /\ [Next]_vars => MInv'
  <1> SUFFICES ASSUME MInv, [Next]_vars PROVE MInv'
    OBVIOUS
  <1>1. CASE \E c \in FsyncClients : FsyncFill(c)
    BY <1>1, FillStep
  <1>2. CASE FsyncPut1
    BY <1>2, Put1Step
  <1>3. CASE FsyncAttrFill
    BY <1>3, AttrFillStep
  <1>4. CASE FsyncPut2
    BY <1>4, Put2Step
  <1>5. CASE \E c \in SetClients :
               \/ \E j \in 1 .. Len(Attrs[c]) : SetAttrIndex(c, Attrs[c][j])
               \/ SetAttrsIndex(c) \/ SetExtIndex(c)
    BY <1>5, SetIndexStep
  <1>6. CASE SetPut
    BY <1>6, SetPutStep
  <1>7. CASE \/ \E g \in AttrGets : GetAttrIndex(g)
             \/ \E req \in ExtGets : GetExtIndex(req)
    BY <1>7, GetIndexStep
  <1>8. CASE GetAttrCall
    BY <1>8, GetAttrCallStep
  <1>9. CASE GetAttrRead
    BY <1>9, GetAttrReadStep
  <1>10. CASE GetExtCall
    BY <1>10, GetExtCallStep
  <1>11. CASE GetExtStep
    BY <1>11, GetExtStepStep
  <1>12. CASE GetExtEnd
    BY <1>12, GetExtEndStep
  <1>13. CASE UNCHANGED vars
    <2>1. /\ UNCHANGED <<keys, primaryIndex, bgrm, gets, store, overflow>>
          /\ UNCHANGED <<calls, mpc, fcli, marg, fret, acked, aret, xret>>
          /\ UNCHANGED <<rpc, rreq, want, got, tot, rc>>
      BY <1>13 DEF vars, shared, mainVars, rmVars
    <2>2. TypeOK'
      BY <2>1 DEF MInv, TypeOK
    <2>3. FlushInv'
      BY <2>1 DEF MInv, FlushInv, FsyncExtents
    <2>4. QED
      BY <2>1, <2>2, <2>3 DEF MInv, NoOverflow, StoredAreFlushed, FlushedAreStored
  <1>14. ~\E r \in ReadClients : TRUE
    BY DEF Alone
  <1>15. QED
    BY <1>1, <1>2, <1>3, <1>4, <1>5, <1>6, <1>7, <1>8, <1>9, <1>10, <1>11,
       <1>12, <1>13, <1>14 DEF Next

\* When the main thread runs alone and every write index fits in
\* unifycr_keys, meta_process_fsync and the attribute and extent API keep
\* MInv in every state: no write past unifycr_keys, only flushed entries
\* stored, each in its own index, and everything reported stored is stored.
THEOREM FlushCorrect ==
  ASSUME Alone
  PROVE  Spec => []MInv
  BY MInvInit, MInvStep, PTL DEF Spec

\* A put of meta_process_fsync or of the set API that returned success has
\* stored everything it was given, in the right index.
THEOREM AckedStored ==
  ASSUME Alone
  PROVE  Spec => []FlushedAreStored
  <1>1. MInv => FlushedAreStored
    BY DEF MInv
  <1>2. QED
    BY FlushCorrect, <1>1, PTL

\* The KV store holds only entries the clients flushed, extents in index 0
\* and attributes in index 1.
THEOREM OnlyFlushedStored ==
  ASSUME Alone
  PROVE  Spec => []StoredAreFlushed
  <1>1. MInv => StoredAreFlushed
    BY DEF MInv
  <1>2. QED
    BY FlushCorrect, <1>1, PTL

\* The main thread's operations keep every global and every local of the
\* delegator within its type: keys in unifycr_keys, the index selector,
\* the store's entries, the reply chain and its ids, the call counters.
THEOREM FlushTypeOK ==
  ASSUME Alone
  PROVE  Spec => []TypeOK
  <1>1. MInv => TypeOK
    BY DEF MInv
  <1>2. QED
    BY FlushCorrect, <1>1, PTL

(***************************************************************************)
(* unifycr_get_file_attribute returns what is stored (AttrGetSees).       *)
(***************************************************************************)

\* The one reply of a point get on server sv, failing when sv is in F,
\* whose matches are H.
LEMMA AttrReply ==
  ASSUME NEW i, NEW sv, NEW F, NEW H, NEW b,
         b = << [id |-> i, srv |-> sv, err |-> sv \in F \/ H = {},
                 ents |-> IF sv \in F THEN {} ELSE H] >>
  PROVE  /\ b # << >>
         /\ Head(b).ents \subseteq H
         /\ ~Head(b).err => Head(b).ents = H /\ H # {}
  <1>1. b # << >>
    OBVIOUS
  <1>2. /\ Head(b).err = (sv \in F \/ H = {})
        /\ Head(b).ents = IF sv \in F THEN {} ELSE H
    OBVIOUS
  <1>3. QED
    BY <1>1, <1>2

\* A put only adds to the index it goes to.
LEMMA PutGrows ==
  ASSUME TypeOK, NEW ents, NEW failed, PutInto(ents, failed)
  PROVE  store[1] \subseteq store'[1]
  BY DEF PutInto, TypeOK

\* A step that leaves the last attribute get's result alone, starts no
\* attribute get and loses no attribute keeps AttrInv.
LEMMA AttrKept ==
  ASSUME AttrInv, aret' = aret, mpc' \notin {"getattr", "readattr"},
         store[1] \subseteq store'[1]
  PROVE  AttrInv'
  BY DEF AttrInv

\* The main thread's steps that are not part of an attribute get.
LEMMA AttrOtherSteps ==
  ASSUME MInv, AttrInv,
         \/ \E c \in FsyncClients : FsyncFill(c)
         \/ FsyncPut1 \/ FsyncAttrFill \/ FsyncPut2
         \/ \E c \in SetClients :
              \/ \E j \in 1 .. Len(Attrs[c]) : SetAttrIndex(c, Attrs[c][j])
              \/ SetAttrsIndex(c) \/ SetExtIndex(c)
         \/ SetPut
         \/ \E req \in ExtGets : GetExtIndex(req)
         \/ GetExtCall \/ GetExtStep \/ GetExtEnd
  PROVE  AttrInv'
  <1>1. CASE \E c \in FsyncClients : FsyncFill(c)
    BY <1>1, AttrKept DEF FsyncFill, MainCall, MainIdle
  <1>2. CASE FsyncPut1
    <2>1. PICK failed \in FailedSets : PutInto(FsyncExtents(fcli), failed)
      BY <1>2 DEF FsyncPut1
    <2>2. store[1] \subseteq store'[1]
      BY <2>1, PutGrows DEF MInv
    <2>3. QED
      BY <1>2, <2>2, AttrKept DEF FsyncPut1
  <1>3. CASE FsyncAttrFill
    BY <1>3, AttrKept DEF FsyncAttrFill
  <1>4. CASE FsyncPut2
    <2>1. PICK failed \in FailedSets : PutInto(AttrEntries(fcli), failed)
      BY <1>4 DEF FsyncPut2
    <2>2. store[1] \subseteq store'[1]
      BY <2>1, PutGrows DEF MInv
    <2>3. QED
      BY <1>4, <2>2, AttrKept DEF FsyncPut2, MainReturn
  <1>5. CASE \E c \in SetClients :
               \/ \E j \in 1 .. Len(Attrs[c]) : SetAttrIndex(c, Attrs[c][j])
               \/ SetAttrsIndex(c) \/ SetExtIndex(c)
    BY <1>5, AttrKept DEF SetAttrIndex, SetAttrsIndex, SetExtIndex, MainCall, MainIdle
  <1>6. CASE SetPut
    <2>1. PICK ents, failed : PutInto(ents, failed)
      BY <1>6 DEF SetPut, PutAcked
    <2>2. store[1] \subseteq store'[1]
      BY <2>1, PutGrows DEF MInv
    <2>3. QED
      BY <1>6, <2>2, AttrKept DEF SetPut, MainReturn
  <1>7. CASE \E req \in ExtGets : GetExtIndex(req)
    BY <1>7, AttrKept DEF GetExtIndex, MainCall, MainIdle
  <1>8. CASE GetExtCall
    BY <1>8, AttrKept DEF GetExtCall
  <1>9. CASE GetExtStep
    <2>1. mpc = "readext"
      BY <1>9 DEF GetExtStep
    <2>2. QED
      BY <1>9, <2>1, AttrKept DEF GetExtStep
  <1>10. CASE GetExtEnd
    BY <1>10, AttrKept DEF GetExtEnd, MainReturn, shared
  <1>11. QED
    BY <1>1, <1>2, <1>3, <1>4, <1>5, <1>6, <1>7, <1>8, <1>9, <1>10

\* Line 619: the attribute get selects index 1.
LEMMA AttrIndexStep ==
  ASSUME AttrInv, \E g \in AttrGets : GetAttrIndex(g)
  PROVE  AttrInv'
  BY DEF GetAttrIndex, MainCall, MainIdle, AttrInv

\* Lines 620-621: the reply holds the attributes of gfid stored in index 1
\* on its server, and is an error when there are none.
LEMMA AttrCallStep ==
  ASSUME AttrInv, GetAttrCall
  PROVE  AttrInv'
  <1> DEFINE s == Shard([fid |-> marg, offset |-> 0])
             hit == {e \in store[primaryIndex] : e.fid = marg /\ Shard(e) = s}
  <1>1. /\ mpc = "getattr" /\ mpc' = "readattr" /\ primaryIndex = 1
        /\ UNCHANGED <<store, marg, aret>>
    BY DEF GetAttrCall, AttrInv
  <1>2. PICK failed \in FailedSets :
          bgrm' = << [id |-> <<gets + 1, s>>, srv |-> s, err |-> s \in failed \/ hit = {},
                      ents |-> IF s \in failed THEN {} ELSE hit] >>
    BY DEF GetAttrCall
  <1>3. /\ bgrm' # << >>
        /\ Head(bgrm').ents \subseteq hit
        /\ ~Head(bgrm').err => Head(bgrm').ents = hit /\ hit # {}
    BY <1>2, AttrReply
  <1>4. QED
    BY <1>1, <1>3 DEF AttrInv

\* Lines 623-635: a reply without an error gives one of its values.
LEMMA AttrReadStep ==
  ASSUME AttrInv, GetAttrRead
  PROVE  AttrInv'
  <1>1. /\ mpc = "readattr" /\ mpc' = "idle"
        /\ UNCHANGED <<store, marg, bgrm>>
    BY DEF GetAttrRead, MainReturn
  <1>2. CASE bgrm = << >>
    BY <1>1, <1>2 DEF GetAttrRead, AttrInv, UNIFYCR_ERROR_MDHIM
  <1>3. CASE bgrm # << >> /\ Head(bgrm).err
    BY <1>1, <1>3 DEF GetAttrRead, AttrInv, UNIFYCR_ERROR_MDHIM
  <1>4. CASE bgrm # << >> /\ ~Head(bgrm).err
    <2>1. PICK v \in Head(bgrm).ents : aret' = [rc |-> 0, gfid |-> marg, val |-> {v}]
      BY <1>4 DEF GetAttrRead
    <2>2. v \in store[1] /\ v.fid = marg
      BY <1>1, <1>4 DEF AttrInv
    <2>3. QED
      BY <1>1, <2>1, <2>2 DEF AttrInv
  <1>5. QED
    BY <1>2, <1>3, <1>4

\* Every step of the main thread, running alone, keeps AttrInv.
THEOREM AttrInvStep ==
  ASSUME Alone
  PROVE  MInv /\ AttrInv /\ [Next]_vars => AttrInv'
  <1> SUFFICES ASSUME MInv, AttrInv, [Next]_vars PROVE AttrInv'
    OBVIOUS
  <1>1. CASE \E g \in AttrGets : GetAttrIndex(g)
    BY <1>1, AttrIndexStep
  <1>2. CASE GetAttrCall
    BY <1>2, AttrCallStep
  <1>3. CASE GetAttrRead
    BY <1>3, AttrReadStep
  <1>4. CASE UNCHANGED vars
    <2>1. UNCHANGED <<store, aret, mpc, marg, bgrm, primaryIndex>>
      BY <1>4 DEF vars, shared, mainVars
    <2>2. QED
      BY <2>1 DEF AttrInv
  <1>5. ~\E r \in ReadClients : TRUE
    BY DEF Alone
  <1>6. QED
    BY <1>1, <1>2, <1>3, <1>4, <1>5, AttrOtherSteps DEF Next

\* When the main thread runs alone, a unifycr_get_file_attribute that
\* returned success returned an attribute stored under the gfid asked for,
\* whichever metadata servers fail and whatever calls came before.
THEOREM AttrGetCorrect ==
  ASSUME Alone
  PROVE  Spec => [](AttrInv /\ AttrGetSees)
  <1>1. Init => AttrInv
    BY DEF Init, AttrInv
  <1>2. AttrInv => AttrGetSees
    BY DEF AttrInv, AttrGetSees
  <1>3. Spec => [](MInv /\ AttrInv)
    <2>1. Init => MInv /\ AttrInv
      BY <1>1, MInvInit
    <2>2. MInv /\ AttrInv /\ [Next]_vars => (MInv /\ AttrInv)'
      BY MInvStep, AttrInvStep
    <2>3. QED
      BY <2>1, <2>2, PTL DEF Spec
  <1>4. QED
    BY <1>2, <1>3, PTL

=============================================================================
