---------------------------- MODULE StorageSafety ---------------------------
(***************************************************************************)
(* Proofs about module Storage, for any records, lists and limits: no two  *)
(* records share a key, and every decoder reads what its encoder wrote,    *)
(* whichever version of the contract wrote it.                             *)
(***************************************************************************)
EXTENDS Storage, Sums, SequenceTheorems, TLAPS

-----------------------------------------------------------------------------
(* Sequences one after the other                                           *)

LEMMA JoinedTyped ==
    ASSUME NEW S, NEW s \in Seq(S), NEW t \in Seq(S)
    PROVE  s \o t \in Seq(S) /\ Len(s \o t) = Len(s) + Len(t)
  BY ConcatProperties

LEMMA CancelFirst ==
    ASSUME NEW S, NEW s \in Seq(S), NEW u \in Seq(S), NEW v \in Seq(S), s \o u = s \o v
    PROVE  u = v
  <1>1. Len(s) \in Nat /\ Len(u) \in Nat /\ Len(v) \in Nat
    BY LenProperties
  <1>2. Len(s \o u) = Len(s) + Len(u) /\ Len(s \o v) = Len(s) + Len(v)
    BY JoinedTyped
  <1>3. Len(u) = Len(v)
    BY <1>1, <1>2
  <1>4. ASSUME NEW i \in 1 .. Len(u)
        PROVE  u[i] = v[i]
    <2>1. PICK k \in 1 .. Len(s) + Len(u) : k = Len(s) + i
      BY <1>1
    <2>2. (s \o u)[k] = u[i]
      BY <1>1, <2>1, ConcatProperties
    <2>3. (s \o v)[k] = v[i]
      BY <1>1, <1>3, <2>1, ConcatProperties
    <2> QED BY <2>2, <2>3
  <1> QED BY <1>3, <1>4, SeqEqual

LEMMA SameParts ==
    ASSUME NEW S, NEW s \in Seq(S), NEW t \in Seq(S), NEW u \in Seq(S), NEW v \in Seq(S),
           Len(s) = Len(t), s \o u = t \o v
    PROVE  s = t /\ u = v
  <1>1. \A i \in 1 .. Len(s) : s[i] = t[i]
    <2> SUFFICES ASSUME NEW i \in 1 .. Len(s) PROVE s[i] = t[i]
      OBVIOUS
    <2>1. i \in 1 .. Len(s) + Len(u) /\ i \in 1 .. Len(t) + Len(v)
      BY LenProperties
    <2>2. (s \o u)[i] = s[i]
      BY <2>1, ConcatProperties
    <2>3. (t \o v)[i] = t[i]
      BY <2>1, ConcatProperties
    <2> QED BY <2>2, <2>3
  <1>2. s = t
    BY <1>1, SeqEqual
  <1> QED BY <1>2, CancelFirst

-----------------------------------------------------------------------------
(* Numbers and their bytes                                                 *)

Bytes == 0 .. 255

LEMMA U16Typed ==
    ASSUME NEW x \in Nat
    PROVE  U16(x) \in Seq(Bytes) /\ Len(U16(x)) = 2
  BY DEF U16, Bytes

LEMMA U16Same ==
    ASSUME NEW x \in Nat, NEW y \in Nat, U16(x) = U16(y)
    PROVE  x % 65536 = y % 65536
  <1>1. /\ x % 65536 = (x % 256) + 256 * ((x \div 256) % 256)
        /\ y % 65536 = (y % 256) + 256 * ((y \div 256) % 256)
    OBVIOUS
  <1>2. x % 256 = y % 256 /\ (x \div 256) % 256 = (y \div 256) % 256
    BY DEF U16
  <1> QED BY <1>1, <1>2

LEMMA U32Typed ==
    ASSUME NEW x \in Nat
    PROVE  U32(x) \in Seq(Bytes) /\ Len(U32(x)) = 4
  <1>1. PICK h \in Nat : h = x \div 65536
    OBVIOUS
  <1>2. U16(h) \in Seq(Bytes) /\ Len(U16(h)) = 2
    BY U16Typed
  <1>3. U16(x) \in Seq(Bytes) /\ Len(U16(x)) = 2
    BY U16Typed
  <1>4. U32(x) = U16(x) \o U16(h)
    BY <1>1 DEF U32
  <1>5. /\ U16(x) \o U16(h) \in Seq(Bytes)
        /\ Len(U16(x) \o U16(h)) = Len(U16(x)) + Len(U16(h))
    BY <1>2, <1>3, JoinedTyped
  <1> QED BY <1>2, <1>3, <1>4, <1>5

LEMMA U32Digits ==
    ASSUME NEW x \in Nat, NEW y \in Nat, U32(x) = U32(y)
    PROVE  /\ x % 65536 = y % 65536
           /\ (x \div 65536) % 65536 = (y \div 65536) % 65536
  <1>1. PICK h \in Nat : h = x \div 65536
    OBVIOUS
  <1>2. PICK k \in Nat : k = y \div 65536
    OBVIOUS
  <1>3. U16(h) \in Seq(Bytes) /\ U16(k) \in Seq(Bytes)
    BY U16Typed
  <1>4. U16(x) \in Seq(Bytes) /\ U16(y) \in Seq(Bytes) /\ Len(U16(x)) = Len(U16(y))
    BY U16Typed
  <1>5. U16(x) \o U16(h) = U16(y) \o U16(k)
    BY <1>1, <1>2 DEF U32
  <1>6. U16(x) = U16(y) /\ U16(h) = U16(k)
    BY <1>3, <1>4, <1>5, SameParts
  <1>7. x % 65536 = y % 65536 /\ h % 65536 = k % 65536
    BY <1>6, U16Same
  <1> QED BY <1>1, <1>2, <1>7

LEMMA U32Same ==
    ASSUME NEW x, NEW y, IsU32(x), IsU32(y), U32(x) = U32(y)
    PROVE  x = y
  <1>1. x \in Nat /\ y \in Nat /\ x \div 65536 < 65536 /\ y \div 65536 < 65536
    BY DEF IsU32
  <1>2. /\ x % 65536 = y % 65536
        /\ (x \div 65536) % 65536 = (y \div 65536) % 65536
    BY <1>1, U32Digits
  <1> QED BY <1>1, <1>2

LEMMA U64Typed ==
    ASSUME NEW x, IsU64(x)
    PROVE  U64(x) \in Seq(Bytes) /\ Len(U64(x)) = 8
  <1>1. x \in Nat
    BY DEF IsU64
  <1>2. PICK h \in Nat : h = (x \div 65536) \div 65536
    BY <1>1
  <1>3. U32(h) \in Seq(Bytes) /\ Len(U32(h)) = 4
    BY U32Typed
  <1>4. U32(x) \in Seq(Bytes) /\ Len(U32(x)) = 4
    BY <1>1, U32Typed
  <1>5. U64(x) = U32(x) \o U32(h)
    BY <1>2 DEF U64
  <1>6. /\ U32(x) \o U32(h) \in Seq(Bytes)
        /\ Len(U32(x) \o U32(h)) = Len(U32(x)) + Len(U32(h))
    BY <1>3, <1>4, JoinedTyped
  <1> QED BY <1>3, <1>4, <1>5, <1>6

LEMMA U64Same ==
    ASSUME NEW x, NEW y, IsU64(x), IsU64(y), U64(x) = U64(y)
    PROVE  x = y
  <1>1. x \in Nat /\ y \in Nat
    BY DEF IsU64
  <1>2. PICK h \in Nat : h = (x \div 65536) \div 65536
    BY <1>1
  <1>3. PICK k \in Nat : k = (y \div 65536) \div 65536
    BY <1>1
  <1>4. U32(h) \in Seq(Bytes) /\ U32(k) \in Seq(Bytes) /\ IsU32(h) /\ IsU32(k)
    BY <1>2, <1>3, U32Typed DEF IsU64
  <1>5. U32(x) \in Seq(Bytes) /\ U32(y) \in Seq(Bytes) /\ Len(U32(x)) = Len(U32(y))
    BY <1>1, U32Typed
  <1>6. U32(x) \o U32(h) = U32(y) \o U32(k)
    BY <1>2, <1>3 DEF U64
  <1>7. U32(x) = U32(y) /\ U32(h) = U32(k)
    BY <1>4, <1>5, <1>6, SameParts
  <1>8. h = k
    BY <1>4, <1>7, U32Same
  <1>9. /\ x % 65536 = y % 65536
        /\ (x \div 65536) % 65536 = (y \div 65536) % 65536
    BY <1>1, <1>7, U32Digits
  <1>10. x \div 65536 = y \div 65536
    BY <1>1, <1>2, <1>3, <1>8, <1>9
  <1> QED BY <1>1, <1>9, <1>10

-----------------------------------------------------------------------------
(* Keys                                                                    *)

KeyStart(r) == <<Prefix(r.kind)>> \o U64(r.id)
KeyEnd(r) == CASE r.kind = "option"  -> U32(r.n)
               [] r.kind = "history" -> U64(r.n) \o r.name
               [] OTHER -> r.name

LEMMA RecordFacts ==
    ASSUME NEW r \in RecordIds
    PROVE  /\ r = [kind |-> r.kind, id |-> r.id, n |-> r.n, name |-> r.name]
           /\ r.kind \in Kinds /\ IsU64(r.id) /\ r.name \in Seq(Bytes)
           /\ r.kind \notin NamedKinds => r.name = <<>>
           /\ r.kind \notin NumberedKinds => r.n = 0
           /\ r.kind = "option" => IsU32(r.n)
           /\ r.kind = "history" => IsU64(r.n)
  BY StorageConstants DEF StorageConstants, Bytes

LEMMA PrefixesDiffer ==
    ASSUME NEW k \in Kinds, NEW l \in Kinds
    PROVE  Prefix(k) \in Bytes /\ (Prefix(k) = Prefix(l) => k = l)
  BY DEF Kinds, Prefix, Bytes

LEMMA KeyStartFacts ==
    ASSUME NEW r \in RecordIds
    PROVE  KeyStart(r) \in Seq(Bytes) /\ Len(KeyStart(r)) = 9
  <1>1. PICK s \in Seq(Bytes) : s = <<Prefix(r.kind)>> /\ Len(s) = 1
    <2>1. PICK b \in Bytes : b = Prefix(r.kind)
      BY RecordFacts, PrefixesDiffer
    <2>2. <<b>> \in Seq(Bytes) /\ Len(<<b>>) = 1
      OBVIOUS
    <2> QED BY <2>1, <2>2
  <1>2. U64(r.id) \in Seq(Bytes) /\ Len(U64(r.id)) = 8
    BY RecordFacts, U64Typed
  <1>3. s \o U64(r.id) \in Seq(Bytes) /\ Len(s \o U64(r.id)) = Len(s) + Len(U64(r.id))
    BY <1>2, JoinedTyped
  <1> QED BY <1>1, <1>2, <1>3 DEF KeyStart

LEMMA KeyEndTyped ==
    ASSUME NEW r \in RecordIds
    PROVE  KeyEnd(r) \in Seq(Bytes)
  <1>1. CASE r.kind = "option"
    <2>1. r.n \in Nat
      BY <1>1, RecordFacts DEF IsU32
    <2> QED BY <1>1, <2>1, U32Typed DEF KeyEnd
  <1>2. CASE r.kind = "history"
    <2>1. U64(r.n) \in Seq(Bytes) /\ r.name \in Seq(Bytes)
      BY <1>2, RecordFacts, U64Typed
    <2>2. U64(r.n) \o r.name \in Seq(Bytes)
      BY <2>1, JoinedTyped
    <2> QED BY <1>2, <2>2 DEF KeyEnd
  <1>3. CASE r.kind # "option" /\ r.kind # "history"
    BY <1>3, RecordFacts DEF KeyEnd
  <1> QED BY <1>1, <1>2, <1>3

\* Every record has a key of its own.
LEMMA KeysDiffer ==
    ASSUME NEW r \in RecordIds, NEW q \in RecordIds, KeyOf(r) = KeyOf(q)
    PROVE  r = q
  <1>1. KeyStart(r) \o KeyEnd(r) = KeyStart(q) \o KeyEnd(q)
    BY DEF KeyOf, KeyStart, KeyEnd
  <1>2. KeyStart(r) = KeyStart(q) /\ KeyEnd(r) = KeyEnd(q)
    <2>1. /\ KeyStart(r) \in Seq(Bytes) /\ KeyStart(q) \in Seq(Bytes)
          /\ KeyEnd(r) \in Seq(Bytes) /\ KeyEnd(q) \in Seq(Bytes)
          /\ Len(KeyStart(r)) = Len(KeyStart(q))
      BY KeyStartFacts, KeyEndTyped
    <2> QED BY <1>1, <2>1, SameParts
  <1>3. r.kind = q.kind /\ r.id = q.id
    <2>1. /\ <<Prefix(r.kind)>> \in Seq(Bytes) /\ <<Prefix(q.kind)>> \in Seq(Bytes)
          /\ U64(r.id) \in Seq(Bytes) /\ U64(q.id) \in Seq(Bytes)
          /\ Len(<<Prefix(r.kind)>>) = Len(<<Prefix(q.kind)>>)
      BY RecordFacts, PrefixesDiffer, U64Typed
    <2>2. <<Prefix(r.kind)>> \o U64(r.id) = <<Prefix(q.kind)>> \o U64(q.id)
      BY <1>2 DEF KeyStart
    <2>3. <<Prefix(r.kind)>> = <<Prefix(q.kind)>> /\ U64(r.id) = U64(q.id)
      BY <2>1, <2>2, SameParts
    <2>4. Prefix(r.kind) = Prefix(q.kind)
      BY <2>3
    <2> QED BY <2>3, <2>4, RecordFacts, PrefixesDiffer, U64Same
  <1>4. r.n = q.n /\ r.name = q.name
    <2>1. CASE r.kind = "option"
      <3>1. U32(r.n) = U32(q.n) /\ IsU32(r.n) /\ IsU32(q.n)
        BY <1>2, <1>3, <2>1, RecordFacts DEF KeyEnd
      <3> QED BY <1>3, <2>1, <3>1, U32Same, RecordFacts DEF NamedKinds
    <2>2. CASE r.kind = "history"
      <3>1. U64(r.n) \o r.name = U64(q.n) \o q.name
        BY <1>2, <1>3, <2>2 DEF KeyEnd
      <3>2. /\ IsU64(r.n) /\ IsU64(q.n)
            /\ r.name \in Seq(Bytes) /\ q.name \in Seq(Bytes)
        BY <1>3, <2>2, RecordFacts
      <3>3. /\ U64(r.n) \in Seq(Bytes) /\ U64(q.n) \in Seq(Bytes)
            /\ Len(U64(r.n)) = Len(U64(q.n))
        BY <3>2, U64Typed
      <3>4. U64(r.n) = U64(q.n) /\ r.name = q.name
        BY <3>1, <3>2, <3>3, SameParts
      <3> QED BY <3>2, <3>4, U64Same
    <2>3. CASE r.kind # "option" /\ r.kind # "history"
      BY <1>2, <1>3, <2>3, RecordFacts DEF KeyEnd, NumberedKinds
    <2> QED BY <2>1, <2>2, <2>3
  <1> QED BY <1>3, <1>4, RecordFacts

-----------------------------------------------------------------------------
(* Records stay apart                                                      *)

ApartInv == DOMAIN saved \subseteq RecordIds /\ RecordsStayApart

LEMMA DropAt ==
    ASSUME NEW f, NEW k
    PROVE  /\ DOMAIN Drop(f, k) = DOMAIN f \ {k}
           /\ \A j \in DOMAIN f \ {k} : Drop(f, k)[j] = f[j]
  BY DEF Drop

LEMMA SaveApart ==
    ASSUME ApartInv, NEW r \in RecordIds, NEW v,
           store' = Put(store, KeyOf(r), v), saved' = Put(saved, r, v)
    PROVE  ApartInv'
  <1>1. /\ DOMAIN store' = DOMAIN store \cup {KeyOf(r)} /\ store'[KeyOf(r)] = v
        /\ \A k \in DOMAIN store \ {KeyOf(r)} : store'[k] = store[k]
    BY DEF Put
  <1>2. /\ DOMAIN saved' = DOMAIN saved \cup {r} /\ saved'[r] = v
        /\ \A q \in DOMAIN saved \ {r} : saved'[q] = saved[q]
    BY DEF Put
  <1>3. DOMAIN store' = {KeyOf(q) : q \in DOMAIN saved'}
    BY <1>1, <1>2 DEF ApartInv, RecordsStayApart
  <1>4. ASSUME NEW q \in DOMAIN saved'
        PROVE  store'[KeyOf(q)] = saved'[q]
    <2>1. CASE q = r
      BY <1>1, <1>2, <2>1
    <2>2. CASE q # r
      <3>1. q \in DOMAIN saved /\ q \in RecordIds
        BY <1>2, <1>4, <2>2 DEF ApartInv
      <3>2. KeyOf(q) # KeyOf(r)
        BY <2>2, <3>1, KeysDiffer
      <3>3. KeyOf(q) \in DOMAIN store /\ store[KeyOf(q)] = saved[q]
        BY <3>1 DEF ApartInv, RecordsStayApart
      <3> QED BY <1>1, <1>2, <2>2, <3>1, <3>2, <3>3
    <2> QED BY <2>1, <2>2
  <1> QED BY <1>2, <1>3, <1>4 DEF ApartInv, RecordsStayApart

LEMMA DeleteApart ==
    ASSUME ApartInv, NEW r \in DOMAIN saved,
           store' = Drop(store, KeyOf(r)), saved' = Drop(saved, r)
    PROVE  ApartInv'
  <1>1. /\ DOMAIN store' = DOMAIN store \ {KeyOf(r)}
        /\ \A k \in DOMAIN store \ {KeyOf(r)} : store'[k] = store[k]
    BY DropAt
  <1>2. /\ DOMAIN saved' = DOMAIN saved \ {r}
        /\ \A q \in DOMAIN saved \ {r} : saved'[q] = saved[q]
    BY DropAt
  <1>3. ASSUME NEW q \in DOMAIN saved'
        PROVE  KeyOf(q) \in DOMAIN store' /\ store'[KeyOf(q)] = saved'[q]
    <2>1. q \in DOMAIN saved /\ q # r /\ q \in RecordIds /\ r \in RecordIds
      BY <1>2 DEF ApartInv
    <2>2. KeyOf(q) # KeyOf(r)
      BY <2>1, KeysDiffer
    <2>3. KeyOf(q) \in DOMAIN store /\ store[KeyOf(q)] = saved[q]
      BY <2>1 DEF ApartInv, RecordsStayApart
    <2> QED BY <1>1, <1>2, <2>1, <2>2, <2>3
  <1>4. DOMAIN store' = {KeyOf(q) : q \in DOMAIN saved'}
    <2>1. ASSUME NEW k \in DOMAIN store'
          PROVE  \E q \in DOMAIN saved' : k = KeyOf(q)
      <3>1. PICK q \in DOMAIN saved : k = KeyOf(q)
        BY <1>1 DEF ApartInv, RecordsStayApart
      <3> QED BY <1>1, <1>2, <3>1
    <2> QED BY <1>3, <2>1
  <1> QED BY <1>2, <1>3, <1>4 DEF ApartInv, RecordsStayApart

LEMMA ApartInit == StorageInit => ApartInv
  <1> SUFFICES ASSUME StorageInit PROVE ApartInv
    OBVIOUS
  <1>1. CASE store = <<>> /\ saved = <<>>
    BY <1>1 DEF ApartInv, RecordsStayApart
  <1>2. ASSUME NEW r \in RecordIds, NEW v,
               store = Put(<<>>, KeyOf(r), v), saved = Put(<<>>, r, v)
        PROVE  ApartInv
    <2>1. DOMAIN store = {KeyOf(r)} /\ store[KeyOf(r)] = v
      BY <1>2 DEF Put
    <2>2. DOMAIN saved = {r} /\ saved[r] = v
      BY <1>2 DEF Put
    <2> QED BY <2>1, <2>2 DEF ApartInv, RecordsStayApart
  <1> QED BY <1>1, <1>2 DEF StorageInit

LEMMA ApartStep == ApartInv /\ [StorageNext]_storageVars => ApartInv'
  <1> SUFFICES ASSUME ApartInv, [StorageNext]_storageVars PROVE ApartInv'
    OBVIOUS
  <1>1. ASSUME UNCHANGED <<store, saved>>
        PROVE  ApartInv'
    BY <1>1 DEF ApartInv, RecordsStayApart
  <1>2. ASSUME NEW r \in RecordIds, NEW s \in Shapes, Save(r, s)
        PROVE  ApartInv'
    BY <1>2, SaveApart DEF Save
  <1>3. ASSUME NEW r \in RecordIds, Delete(r)
        PROVE  ApartInv'
    BY <1>3, DeleteApart DEF Delete
  <1> QED
    BY <1>1, <1>2, <1>3
    DEF StorageNext, storageVars, Load, ReadField, ReadPastEnd, Decoded, Return

\* Whatever is saved and deleted, in any order, under the key of each record
\* there is what was saved for it: ids of any size up to 64 bits, addresses and
\* assets of any length.
THEOREM RecordsApart == StorageSpec => []RecordsStayApart
  <1>1. ApartInv => RecordsStayApart
    BY DEF ApartInv
  <1> QED BY <1>1, ApartInit, ApartStep, PTL DEF StorageSpec

-----------------------------------------------------------------------------
(* What a decoder makes of a sequence of fields                            *)

Names ==
    {"VotingSystem", "ThresholdPercent", "QuorumPercent", "ProposalDurationHours",
     "ExecutionDelayHours", "LeaveCooldownHours", "ProposalCost", "StakeMinAmt",
     "MembershipNFTContract", "MembershipNFTContractFunction", "MembershipNFT",
     "MembershipNftPayloadFormat", "ProposalsMembersOnly", "WhitelistOnly", "Address",
     "Stake", "JoinedAt", "LastActionAt", "ExitRequested", "Reputation",
     "StakeIncrement", "JoinSeq", "VoteLockUntil", "UnstakeRequested",
     "UnstakePending", "Text", "URL", "WeightTotal", "VoterCount", "Outcome", "Meta",
     "MetaKey", "MetaValue", "Payout", "PayoutAddress", "Amount", "Asset", "ICC",
     "ContractAddress", "Function", "Payload", "ICCAssets", "ID", "ProjectID",
     "Creator", "Name", "Description", "OptionCount", "DurationHours", "CreatedAt",
     "State", "Tx", "StakeSnapshot", "MemberCountSnapshot", "Metadata", "IsPoll",
     "ResultOptionID", "ExecutableAt", "CostPaid", "JoinSeqSnapshot", "Owner",
     "Paused", "FundsAsset", "StakeTotal", "MemberCount", "Choices", "Choice",
     "Weight", "Timestamp", "Number"}

Fields == [field : Names, count : Nat]
Wants  == [field : Names, ifMore : BOOLEAN]

\* What is left to read after field h was read as w, before the reads t.
NextReads(h, w, t) == Times(h.count, Entry(w.field)) \o t

\* R relates fields to reads that take them all, each under its own name.
Follows(R) ==
    /\ R \subseteq Seq(Fields) \X Seq(Wants)
    /\ \A e \in Seq(Fields), t \in Seq(Wants) : <<e, t>> \in R =>
         /\ e = <<>> => t = <<>>
         /\ e # <<>> =>
              /\ t # <<>>
              /\ Head(e).field = Head(t).field
              /\ ~TooMany(Head(t).field, Head(e).count)
              /\ <<Tail(e), NextReads(Head(e), Head(t), Tail(t))>> \in R

\* The reads t take the fields e.
Reads(e, t) == \E R : Follows(R) /\ <<e, t>> \in R

LEMMA ReadsTyped ==
    ASSUME NEW e, NEW t, Reads(e, t)
    PROVE  e \in Seq(Fields) /\ t \in Seq(Wants)
  BY DEF Reads, Follows

LEMMA ReadsNext ==
    ASSUME NEW e, NEW t, Reads(e, t)
    PROVE  /\ e = <<>> => t = <<>>
           /\ e # <<>> =>
                /\ t # <<>>
                /\ Head(e).field = Head(t).field
                /\ ~TooMany(Head(t).field, Head(e).count)
                /\ Reads(Tail(e), NextReads(Head(e), Head(t), Tail(t)))
  <1>1. PICK R : Follows(R) /\ <<e, t>> \in R
    BY DEF Reads
  <1>2. e \in Seq(Fields) /\ t \in Seq(Wants)
    BY ReadsTyped
  <1> QED BY <1>1, <1>2 DEF Follows, Reads

-----------------------------------------------------------------------------
(* Entries, n times over                                                   *)

LEMMA Remainder ==
    ASSUME NEW n \in Nat \ {0}, NEW j \in Nat
    PROVE  /\ j % n \in 0 .. n - 1
           /\ j < n => j % n = j
           /\ (j + n) % n = j % n
  <1>1. ASSUME NEW a \in Int, NEW b \in Int, NEW r \in 0 .. n - 1, NEW s \in 0 .. n - 1,
               n * a + r = n * b + s
        PROVE  r = s
    <2>1. n * (a - b) = s - r
      BY <1>1
    <2>2. ASSUME NEW c \in Int, c >= 1
          PROVE  n * c >= n
      BY <2>2
    <2>3. CASE a > b
      <3>1. n * (a - b) >= n
        BY <2>2, <2>3
      <3> QED BY <2>1, <3>1
    <2>4. CASE a < b
      <3>1. n * (b - a) >= n
        BY <2>2, <2>4
      <3>2. n * (b - a) = r - s
        BY <1>1
      <3> QED BY <3>1, <3>2
    <2> QED BY <2>1, <2>3, <2>4
  <1>2. ASSUME NEW k \in Nat
        PROVE  k % n \in 0 .. n - 1 /\ k \div n \in Int /\ k = n * (k \div n) + (k % n)
    OBVIOUS
  <1>3. j = n * (j \div n) + (j % n) /\ j + n = n * ((j + n) \div n) + ((j + n) % n)
    BY <1>2
  <1>4. n * ((j \div n) + 1) = n * (j \div n) + n
    BY <1>2
  <1>5. n * ((j \div n) + 1) + (j % n) = n * ((j + n) \div n) + ((j + n) % n)
    BY <1>2, <1>3, <1>4
  <1>6. (j + n) % n = j % n
    <2>1. j + n \in Nat
      OBVIOUS
    <2>2. PICK a \in Int : a = (j \div n) + 1
      BY <1>2
    <2>3. PICK b \in Int : b = (j + n) \div n
      BY <1>2, <2>1
    <2>4. PICK r \in 0 .. n - 1 : r = j % n
      BY <1>2
    <2>5. PICK s \in 0 .. n - 1 : s = (j + n) % n
      BY <1>2, <2>1
    <2>6. n * a + r = n * b + s
      BY <1>5, <2>2, <2>3, <2>4, <2>5
    <2> QED BY <1>1, <2>4, <2>5, <2>6
  <1>7. ASSUME j < n
        PROVE  j % n = j
    <2>1. n * 0 + j = n * (j \div n) + (j % n)
      BY <1>3
    <2> QED BY <1>1, <1>2, <1>7, <2>1
  <1> QED BY <1>2, <1>6, <1>7

LEMMA TimesTyped ==
    ASSUME NEW S, NEW e \in Seq(S), NEW n \in Nat
    PROVE  /\ Times(n, e) \in Seq(S) /\ Len(Times(n, e)) = n * Len(e)
           /\ \A i \in 1 .. n * Len(e) :
                Times(n, e)[i] = e[((i - 1) % Len(e)) + 1]
  <1>1. PICK l \in Nat : l = Len(e)
    BY LenProperties
  <1>2. PICK m \in Nat : m = n * Len(e)
    BY <1>1
  <1>3. ASSUME NEW i \in 1 .. m
        PROVE  e[((i - 1) % l) + 1] \in S
    <2>1. l # 0
      BY <1>1, <1>2
    <2>2. i - 1 \in Nat /\ l \in Nat \ {0}
      BY <2>1
    <2>3. (i - 1) % l \in 0 .. l - 1
      BY <2>2, Remainder
    <2>4. ((i - 1) % l) + 1 \in 1 .. Len(e)
      BY <1>1, <2>3
    <2> QED BY <2>4, ElementOfSeq
  <1>4. Times(n, e) = [i \in 1 .. m |-> e[((i - 1) % l) + 1]]
    BY <1>1, <1>2 DEF Times
  <1>5. Times(n, e) \in [1 .. m -> S]
    BY <1>3, <1>4
  <1> QED BY <1>1, <1>2, <1>4, <1>5

LEMMA TimesNone ==
    ASSUME NEW S, NEW e \in Seq(S)
    PROVE  Times(0, e) = <<>>
  <1>1. Len(e) \in Nat
    BY LenProperties
  <1>2. 0 * Len(e) = 0
    BY <1>1
  <1>3. Times(0, e) \in Seq(S) /\ Len(Times(0, e)) = 0
    BY <1>2, TimesTyped
  <1> QED BY <1>3, EmptySeq

LEMMA TimesMore ==
    ASSUME NEW S, NEW e \in Seq(S), NEW n \in Nat
    PROVE  Times(n + 1, e) = e \o Times(n, e)
  <1>1. PICK l \in Nat : l = Len(e)
    BY LenProperties
  <1>2. PICK m \in Nat : m = n * l
    OBVIOUS
  <1>3. PICK k \in Nat : k = n + 1 /\ k * l = l + m
    BY <1>2
  <1>4. /\ Times(n, e) \in Seq(S) /\ Len(Times(n, e)) = m
        /\ \A i \in 1 .. m : Times(n, e)[i] = e[((i - 1) % l) + 1]
    BY <1>1, <1>2, TimesTyped
  <1>5. /\ Times(k, e) \in Seq(S) /\ Len(Times(k, e)) = l + m
        /\ \A i \in 1 .. l + m : Times(k, e)[i] = e[((i - 1) % l) + 1]
    <2>1. /\ Times(k, e) \in Seq(S) /\ Len(Times(k, e)) = k * Len(e)
          /\ \A i \in 1 .. k * Len(e) : Times(k, e)[i] = e[((i - 1) % Len(e)) + 1]
      BY TimesTyped
    <2>2. k * Len(e) = l + m
      BY <1>1, <1>3
    <2> QED BY <1>1, <2>1, <2>2
  <1>6. /\ e \o Times(n, e) \in Seq(S) /\ Len(e \o Times(n, e)) = l + m
        /\ \A i \in 1 .. l + m :
             (e \o Times(n, e))[i] = IF i <= l THEN e[i] ELSE Times(n, e)[i - l]
    BY <1>1, <1>4, ConcatProperties
  <1>7. ASSUME NEW i \in 1 .. l + m
        PROVE  Times(k, e)[i] = (e \o Times(n, e))[i]
    <2>1. CASE i <= l
      <3>1. l \in Nat \ {0} /\ i - 1 \in Nat /\ i - 1 < l
        BY <2>1
      <3>2. (i - 1) % l = i - 1
        BY <3>1, Remainder
      <3>3. Times(k, e)[i] = e[i]
        BY <1>5, <3>2
      <3> QED BY <1>6, <2>1, <3>3
    <2>2. CASE ~(i <= l)
      <3>1. PICK j \in 1 .. m : i = j + l
        BY <2>2
      <3>2. l # 0
        BY <1>2, <3>1
      <3>3. l \in Nat \ {0} /\ j - 1 \in Nat
        BY <3>1, <3>2
      <3>4. ((j - 1) + l) % l = (j - 1) % l
        BY <3>3, Remainder
      <3>5. i - 1 = (j - 1) + l /\ i - l = j
        BY <3>1
      <3>6. Times(k, e)[i] = e[((j - 1) % l) + 1]
        BY <1>5, <3>4, <3>5
      <3>7. Times(n, e)[j] = e[((j - 1) % l) + 1]
        BY <1>4, <3>1
      <3>8. (e \o Times(n, e))[i] = Times(n, e)[j]
        BY <1>6, <2>2, <3>5
      <3> QED BY <3>6, <3>7, <3>8
    <2> QED BY <2>1, <2>2
  <1>8. Times(k, e) = e \o Times(n, e)
    BY <1>5, <1>6, <1>7, SeqEqual
  <1> QED BY <1>3, <1>8

-----------------------------------------------------------------------------
(* How reads compose                                                       *)

\* The sequence j is s followed by t, element by element.
Joins(j, s, t) ==
    /\ Len(j) = Len(s) + Len(t)
    /\ \A i \in 1 .. Len(s) + Len(t) : j[i] = IF i <= Len(s) THEN s[i] ELSE t[i - Len(s)]

\* The sequence r is s without its first element.
Rest(r, s) ==
    /\ Len(r) = Len(s) - 1
    /\ \A i \in 1 .. Len(r) : r[i] = s[i + 1]

LEMMA ConcatJoins ==
    ASSUME NEW S, NEW s \in Seq(S), NEW t \in Seq(S)
    PROVE  s \o t \in Seq(S) /\ Joins(s \o t, s, t)
  BY ConcatProperties DEF Joins

LEMMA TailRests ==
    ASSUME NEW S, NEW s \in Seq(S), s # <<>>
    PROVE  Tail(s) \in Seq(S) /\ Rest(Tail(s), s) /\ Head(s) = s[1]
  BY HeadTailProperties DEF Rest

LEMMA HeadTailJoined ==
    ASSUME NEW S, NEW s \in Seq(S), NEW t \in Seq(S), s # <<>>
    PROVE  Head(s \o t) = Head(s) /\ Tail(s \o t) = Tail(s) \o t
  <1>1. PICK r \in Seq(S) : r = Tail(s) /\ Rest(r, s) /\ Head(s) = s[1]
    BY TailRests
  <1>2. PICK j \in Seq(S) : j = s \o t /\ Joins(j, s, t)
    BY ConcatJoins
  <1>3. PICK k \in Seq(S) : k = r \o t /\ Joins(k, r, t)
    BY ConcatJoins
  <1>4. Len(s) \in Nat \ {0} /\ Len(t) \in Nat
    BY EmptySeq, LenProperties
  <1>5. j # <<>>
    BY <1>2, <1>4 DEF Joins
  <1>6. PICK l \in Seq(S) : l = Tail(j) /\ Rest(l, j) /\ Head(j) = j[1]
    BY <1>5, TailRests
  <1>7. Len(k) = Len(l)
    BY <1>1, <1>2, <1>3, <1>4, <1>6 DEF Joins, Rest
  <1>8. ASSUME NEW i \in 1 .. Len(l)
        PROVE  l[i] = k[i]
    BY <1>1, <1>2, <1>3, <1>4, <1>6 DEF Joins, Rest
  <1>9. l = k
    BY <1>7, <1>8, SeqEqual
  <1>10. Head(j) = Head(s)
    BY <1>1, <1>2, <1>4, <1>6 DEF Joins
  <1> QED BY <1>1, <1>2, <1>3, <1>6, <1>9, <1>10

LEMMA MustTyped ==
    ASSUME NEW names \in Seq(Names)
    PROVE  /\ Must(names) \in Seq(Wants) /\ IfMore(names) \in Seq(Wants)
           /\ Len(Must(names)) = Len(names) /\ Len(IfMore(names)) = Len(names)
           /\ \A i \in 1 .. Len(names) :
                /\ Must(names)[i] = [field |-> names[i], ifMore |-> FALSE]
                /\ IfMore(names)[i] = [field |-> names[i], ifMore |-> TRUE]
  <1>1. PICK n \in Nat : n = Len(names) /\ DOMAIN names = 1 .. n /\ names \in [1 .. n -> Names]
    BY LenProperties
  <1>2. /\ Must(names) = [i \in 1 .. n |-> [field |-> names[i], ifMore |-> FALSE]]
        /\ IfMore(names) = [i \in 1 .. n |-> [field |-> names[i], ifMore |-> TRUE]]
    BY <1>1 DEF Must, IfMore
  <1>3. ASSUME NEW i \in 1 .. n
        PROVE  /\ [field |-> names[i], ifMore |-> FALSE] \in Wants
               /\ [field |-> names[i], ifMore |-> TRUE] \in Wants
    <2>1. PICK m \in Names : m = names[i]
      BY <1>1
    <2> QED BY <2>1 DEF Wants
  <1>4. Must(names) \in [1 .. n -> Wants] /\ IfMore(names) \in [1 .. n -> Wants]
    BY <1>2, <1>3
  <1>5. ASSUME NEW t \in [1 .. n -> Wants]
        PROVE  t \in Seq(Wants) /\ Len(t) = n
    OBVIOUS
  <1>6. \A i \in 1 .. n : /\ Must(names)[i] = [field |-> names[i], ifMore |-> FALSE]
                          /\ IfMore(names)[i] = [field |-> names[i], ifMore |-> TRUE]
    BY <1>2
  <1> HIDE DEF Must, IfMore
  <1> QED BY <1>1, <1>4, <1>5, <1>6

LEMMA EntryTyped ==
    ASSUME NEW f \in Names
    PROVE  Entry(f) \in Seq(Wants)
  <1>1. /\ <<"Meta", "Payout">> \in Seq(Names) /\ <<"ICC">> \in Seq(Names)
        /\ <<"MetaKey", "MetaValue">> \in Seq(Names)
        /\ <<"PayoutAddress", "Amount", "Asset">> \in Seq(Names)
        /\ <<"ContractAddress", "Function", "Payload", "ICCAssets">> \in Seq(Names)
        /\ <<"Asset", "Amount">> \in Seq(Names)
        /\ <<"Choice">> \in Seq(Names) /\ <<"Text">> \in Seq(Names)
    BY DEF Names
  <1>2. Must(<<"Meta", "Payout">>) \o IfMore(<<"ICC">>) \in Seq(Wants)
    BY <1>1, MustTyped, JoinedTyped
  <1>3. <<>> \in Seq(Wants)
    BY EmptySeq
  <1> QED BY <1>1, <1>2, <1>3, MustTyped DEF Entry

LEMMA NextTyped ==
    ASSUME NEW h \in Fields, NEW w \in Wants, NEW t \in Seq(Wants), NEW u \in Seq(Wants)
    PROVE  /\ NextReads(h, w, t) \in Seq(Wants)
           /\ NextReads(h, w, t \o u) = NextReads(h, w, t) \o u
  <1>1. h.count \in Nat /\ w.field \in Names
    BY DEF Fields, Wants
  <1>2. Times(h.count, Entry(w.field)) \in Seq(Wants)
    BY <1>1, EntryTyped, TimesTyped
  <1> QED BY <1>2, JoinedTyped, ConcatAssociative DEF NextReads

\* What is read by R, and then t taking e.
Then(R, e, t) ==
    {p \in Seq(Fields) \X Seq(Wants) :
        \E d \in Seq(Fields), u \in Seq(Wants) :
            <<d, u>> \in R /\ p = <<d \o e, u \o t>>}

LEMMA FollowsThen ==
    ASSUME NEW Q, NEW R, Follows(Q), Follows(R), NEW e2, NEW t2, <<e2, t2>> \in R
    PROVE  Follows(Then(Q, e2, t2) \cup R)
  <1> DEFINE U == Then(Q, e2, t2) \cup R
  <1>1. e2 \in Seq(Fields) /\ t2 \in Seq(Wants)
    BY DEF Follows
  <1>3. U \subseteq Seq(Fields) \X Seq(Wants)
    BY DEF Then, Follows
  <1>4. ASSUME NEW e \in Seq(Fields), NEW t \in Seq(Wants), <<e, t>> \in U
        PROVE  /\ e = <<>> => t = <<>>
               /\ e # <<>> =>
                    /\ t # <<>>
                    /\ Head(e).field = Head(t).field
                    /\ ~TooMany(Head(t).field, Head(e).count)
                    /\ <<Tail(e), NextReads(Head(e), Head(t), Tail(t))>> \in U
    <2>1. CASE <<e, t>> \in R
      BY <2>1 DEF Follows
    <2>2. CASE <<e, t>> \in Then(Q, e2, t2)
      <3>4. PICK d \in Seq(Fields), u \in Seq(Wants) :
                  <<d, u>> \in Q /\ <<e, t>> = <<d \o e2, u \o t2>>
        BY <2>2 DEF Then
      <3>1. e = d \o e2 /\ t = u \o t2
        BY <3>4
      <3>5. CASE d = <<>>
        <4>1. u = <<>>
          BY <3>4, <3>5 DEF Follows
        <4>2. e = e2 /\ t = t2
          BY <1>1, <3>1, <3>5, <4>1, ConcatEmptySeq
        <4> QED BY <2>1, <4>2
      <3>6. CASE d # <<>>
        <4>1. /\ u # <<>>
              /\ Head(d).field = Head(u).field
              /\ ~TooMany(Head(u).field, Head(d).count)
              /\ <<Tail(d), NextReads(Head(d), Head(u), Tail(u))>> \in Q
          BY <3>4, <3>6 DEF Follows
        <4>2. /\ Head(e) = Head(d) /\ Tail(e) = Tail(d) \o e2
              /\ Head(t) = Head(u) /\ Tail(t) = Tail(u) \o t2
          BY <1>1, <3>1, <3>6, <4>1, HeadTailJoined
        <4>3. /\ Head(d) \in Fields /\ Head(u) \in Wants /\ Tail(u) \in Seq(Wants)
          BY <3>6, <4>1, HeadTailProperties
        <4>4. NextReads(Head(e), Head(t), Tail(t)) = NextReads(Head(d), Head(u), Tail(u)) \o t2
          <5>1. NextReads(Head(d), Head(u), Tail(u) \o t2)
                    = NextReads(Head(d), Head(u), Tail(u)) \o t2
            BY <1>1, <4>3, NextTyped
          <5> QED BY <4>2, <5>1
        <4>5. <<Tail(e), NextReads(Head(e), Head(t), Tail(t))>> \in Then(Q, e2, t2)
          <5>1. PICK f \in Seq(Fields) : f = Tail(d)
            BY <4>1 DEF Follows
          <5>2. PICK v \in Seq(Wants) : v = NextReads(Head(d), Head(u), Tail(u))
            BY <4>1 DEF Follows
          <5>3. f \o e2 \in Seq(Fields) /\ v \o t2 \in Seq(Wants)
            BY <1>1, JoinedTyped
          <5>4. <<f \o e2, v \o t2>> \in Then(Q, e2, t2)
            BY <4>1, <5>1, <5>2, <5>3 DEF Then
          <5> QED BY <4>2, <4>4, <5>1, <5>2, <5>4
        <4>6. e # <<>> /\ t # <<>>
          BY <1>1, <3>1, <3>6, <4>1, ConcatEqualIffEmpty
        <4> QED BY <4>1, <4>2, <4>5, <4>6
      <3> QED BY <3>5, <3>6
    <2> QED BY <1>4, <2>1, <2>2
  <1> QED BY <1>3, <1>4 DEF Follows

LEMMA ReadsJoined ==
    ASSUME NEW e1, NEW t1, Reads(e1, t1), NEW e2, NEW t2, Reads(e2, t2)
    PROVE  Reads(e1 \o e2, t1 \o t2)
  <1>1. PICK Q : Follows(Q) /\ <<e1, t1>> \in Q
    BY DEF Reads
  <1>2. PICK R : Follows(R) /\ <<e2, t2>> \in R
    BY DEF Reads
  <1>3. Follows(Then(Q, e2, t2) \cup R)
    BY <1>1, <1>2, FollowsThen
  <1>4. <<e1 \o e2, t1 \o t2>> \in Then(Q, e2, t2)
    <2>1. /\ e1 \in Seq(Fields) /\ t1 \in Seq(Wants)
          /\ e2 \in Seq(Fields) /\ t2 \in Seq(Wants)
      BY ReadsTyped
    <2>2. e1 \o e2 \in Seq(Fields) /\ t1 \o t2 \in Seq(Wants)
      BY <2>1, JoinedTyped
    <2> QED BY <1>1, <2>1, <2>2 DEF Then
  <1> QED BY <1>3, <1>4 DEF Reads

LEMMA LeastNumber ==
    ASSUME NEW B, B \subseteq Nat, B # {}
    PROVE  \E k \in B : \A j \in B : k <= j
  <1>1. PICK n \in B : n \in Nat
    OBVIOUS
  <1>2. PICK S : S = 1 .. n /\ IsFiniteSet(S)
    BY <1>1, FS_Interval
  <1> DEFINE C == {s \in SUBSET S : \E k \in B : s = 1 .. k}
  <1>3. S \in C
    BY <1>1, <1>2
  <1>4. C \subseteq SUBSET S /\ C # {}
    BY <1>3
  <1> HIDE DEF C
  <1>5. PICK u \in C : \A v \in C : v \subseteq u => v = u
    <2>1. IsFiniteSet(S) /\ C \subseteq SUBSET S /\ C # {}
      BY <1>2, <1>4
    <2> QED BY <2>1, MinimalSubset
  <1>6. PICK k \in B : u = 1 .. k /\ u \in SUBSET S
    BY <1>5 DEF C
  <1>7. ASSUME NEW j \in B, ~(k <= j)
        PROVE  FALSE
    <2>1. j \in Nat /\ k \in Nat /\ j < k
      BY <1>7
    <2>2. 1 .. j \subseteq u /\ k \in u /\ k \notin 1 .. j
      BY <1>6, <2>1
    <2>3. 1 .. j \in C
      BY <1>6, <2>2 DEF C
    <2> QED BY <1>5, <2>2, <2>3
  <1> QED BY <1>7

LEMMA ReadsNothing == Reads(<<>>, <<>>)
  <1>1. <<>> \in Seq(Fields) /\ <<>> \in Seq(Wants)
    BY EmptySeq
  <1> DEFINE R == {<< <<>>, <<>> >>}
  <1>2. ASSUME NEW e \in Seq(Fields), NEW t \in Seq(Wants), <<e, t>> \in R
        PROVE  e = <<>> /\ t = <<>>
    BY <1>2
  <1>3. R \subseteq Seq(Fields) \X Seq(Wants) /\ << <<>>, <<>> >> \in R
    <2>1. << <<>>, <<>> >> \in Seq(Fields) \X Seq(Wants)
      BY <1>1, Zenon
    <2> QED BY <2>1, Zenon
  <1> HIDE DEF R
  <1>4. Follows(R)
    BY <1>2, <1>3 DEF Follows
  <1> QED BY <1>3, <1>4 DEF Reads

LEMMA ReadsFirst ==
    ASSUME NEW h \in Fields, NEW w \in Wants, NEW e \in Seq(Fields), NEW t \in Seq(Wants),
           h.field = w.field, ~TooMany(w.field, h.count),
           Reads(e, NextReads(h, w, t))
    PROVE  Reads(<<h>> \o e, <<w>> \o t)
  <1>1. PICK Q : Follows(Q) /\ <<e, NextReads(h, w, t)>> \in Q
    BY DEF Reads
  <1>2. PICK d \in Seq(Fields) : /\ d = <<h>> \o e /\ d # <<>>
                                 /\ Head(d) = h /\ Tail(d) = e
    <2>1. /\ <<h>> \in Seq(Fields) /\ <<h>> # <<>> /\ Head(<<h>>) = h /\ Tail(<<h>>) = <<>>
      OBVIOUS
    <2>2. <<h>> \o e \in Seq(Fields) /\ <<h>> \o e # <<>>
      BY <2>1, JoinedTyped, ConcatEqualIffEmpty
    <2>3. Head(<<h>> \o e) = h /\ Tail(<<h>> \o e) = <<>> \o e
      BY <2>1, HeadTailJoined
    <2> QED BY <2>2, <2>3, ConcatEmptySeq
  <1>3. PICK u \in Seq(Wants) : /\ u = <<w>> \o t /\ u # <<>>
                                /\ Head(u) = w /\ Tail(u) = t
    <2>1. /\ <<w>> \in Seq(Wants) /\ <<w>> # <<>> /\ Head(<<w>>) = w /\ Tail(<<w>>) = <<>>
      OBVIOUS
    <2>2. <<w>> \o t \in Seq(Wants) /\ <<w>> \o t # <<>>
      BY <2>1, JoinedTyped, ConcatEqualIffEmpty
    <2>3. Head(<<w>> \o t) = w /\ Tail(<<w>> \o t) = <<>> \o t
      BY <2>1, HeadTailJoined
    <2> QED BY <2>2, <2>3, ConcatEmptySeq
  <1> DEFINE R == Q \cup {<<d, u>>}
  <1>4. /\ R \subseteq Seq(Fields) \X Seq(Wants)
        /\ Q \subseteq R /\ <<d, u>> \in R
        /\ \A c \in Seq(Fields), v \in Seq(Wants) :
             <<c, v>> \in R => <<c, v>> \in Q \/ (c = d /\ v = u)
    BY <1>1 DEF Follows
  <1> HIDE DEF R
  <1>5. <<Tail(d), NextReads(Head(d), Head(u), Tail(u))>> \in R
    BY <1>1, <1>2, <1>3, <1>4
  <1>6. ASSUME NEW c \in Seq(Fields), NEW v \in Seq(Wants), <<c, v>> \in R
        PROVE  /\ c = <<>> => v = <<>>
               /\ c # <<>> =>
                    /\ v # <<>>
                    /\ Head(c).field = Head(v).field
                    /\ ~TooMany(Head(v).field, Head(c).count)
                    /\ <<Tail(c), NextReads(Head(c), Head(v), Tail(v))>> \in R
    <2>1. CASE <<c, v>> \in Q
      BY <1>1, <1>4, <2>1 DEF Follows
    <2>2. CASE c = d /\ v = u
      BY <1>2, <1>3, <1>5, <2>2
    <2> QED BY <1>4, <1>6, <2>1, <2>2
  <1>7. Follows(R)
    BY <1>4, <1>6 DEF Follows
  <1> QED BY <1>2, <1>3, <1>4, <1>7 DEF Reads

LEMMA ReadsTimes ==
    ASSUME NEW e, NEW t, Reads(e, t), NEW n \in Nat
    PROVE  Reads(Times(n, e), Times(n, t))
  <1> DEFINE B == {k \in Nat : ~Reads(Times(k, e), Times(k, t))}
  <1>1. SUFFICES ASSUME B # {} PROVE FALSE
    OBVIOUS
  <1>2. PICK k \in B : \A j \in B : k <= j
    BY <1>1, LeastNumber
  <1>3. e \in Seq(Fields) /\ t \in Seq(Wants)
    BY ReadsTyped
  <1>4. k # 0
    <2>1. Times(0, e) = <<>> /\ Times(0, t) = <<>>
      BY <1>3, TimesNone
    <2> QED BY <1>2, <2>1, ReadsNothing
  <1>5. PICK j \in Nat : k = j + 1
    BY <1>2, <1>4
  <1>6. Reads(Times(j, e), Times(j, t))
    BY <1>2, <1>5
  <1>7. Reads(e \o Times(j, e), t \o Times(j, t))
    BY <1>6, ReadsJoined
  <1>8. Times(k, e) = e \o Times(j, e) /\ Times(k, t) = t \o Times(j, t)
    BY <1>3, <1>5, TimesMore
  <1> QED BY <1>2, <1>7, <1>8

\* A count and its entries are read by the field that announces them.
LEMMA ReadsCounted ==
    ASSUME NEW f \in Names, NEW n \in Nat, ~TooMany(f, n),
           NEW e, Reads(e, Entry(f)), NEW w \in Wants, w.field = f
    PROVE  Reads(Counted(f, n, e), <<w>>)
  <1>1. PICK h \in Fields : h = [field |-> f, count |-> n] /\ h.field = f /\ h.count = n
    <2>1. [field |-> f, count |-> n] \in Fields
      BY DEF Fields
    <2>2. [field |-> f, count |-> n].field = f /\ [field |-> f, count |-> n].count = n
      OBVIOUS
    <2> QED BY <2>1, <2>2
  <1>2. e \in Seq(Fields) /\ Entry(f) \in Seq(Wants)
    BY ReadsTyped
  <1>3. Times(n, e) \in Seq(Fields) /\ Times(n, Entry(f)) \in Seq(Wants)
    BY <1>2, TimesTyped
  <1>4. <<>> \in Seq(Wants)
    BY EmptySeq
  <1>5. NextReads(h, w, <<>>) = Times(n, Entry(f))
    BY <1>1, <1>3, ConcatEmptySeq DEF NextReads
  <1>6. Reads(Times(n, e), NextReads(h, w, <<>>))
    BY <1>2, <1>5, ReadsTimes
  <1>7. Reads(<<h>> \o Times(n, e), <<w>> \o <<>>)
    BY <1>1, <1>3, <1>4, <1>6, ReadsFirst
  <1>8. <<w>> \in Seq(Wants)
    OBVIOUS
  <1>9. <<w>> \o <<>> = <<w>>
    BY <1>8, ConcatEmptySeq
  <1>10. Counted(f, n, e) = <<h>> \o Times(n, e)
    BY <1>1 DEF Counted
  <1> QED BY <1>7, <1>9, <1>10

-----------------------------------------------------------------------------
(* Fields without a count                                                  *)

\* As many fields without a count as reads, under the same names.
Flat(e, t) ==
    /\ e \in Seq(Fields) /\ t \in Seq(Wants) /\ Len(e) = Len(t)
    /\ \A i \in 1 .. Len(e) : e[i].count = 0 /\ e[i].field = t[i].field

LEMMA ReadsFlat ==
    ASSUME NEW e, NEW t, Flat(e, t)
    PROVE  Reads(e, t)
  <1> DEFINE R == {p \in Seq(Fields) \X Seq(Wants) : Flat(p[1], p[2])}
  <1>1. ASSUME NEW d \in Seq(Fields), NEW u \in Seq(Wants)
        PROVE  <<d, u>> \in R <=> Flat(d, u)
    OBVIOUS
  <1>2. R \subseteq Seq(Fields) \X Seq(Wants)
    OBVIOUS
  <1> HIDE DEF R
  <1>3. ASSUME NEW d \in Seq(Fields), NEW u \in Seq(Wants), Flat(d, u)
        PROVE  /\ d = <<>> => u = <<>>
               /\ d # <<>> =>
                    /\ u # <<>>
                    /\ Head(d).field = Head(u).field
                    /\ ~TooMany(Head(u).field, Head(d).count)
                    /\ <<Tail(d), NextReads(Head(d), Head(u), Tail(u))>> \in R
    <2>1. Len(d) = Len(u) /\ Len(d) \in Nat
      BY <1>3, LenProperties DEF Flat
    <2>2. d = <<>> => u = <<>>
      BY <2>1, EmptySeq
    <2>3. ASSUME d # <<>>
          PROVE  /\ u # <<>>
                 /\ Head(d).field = Head(u).field
                 /\ ~TooMany(Head(u).field, Head(d).count)
                 /\ <<Tail(d), NextReads(Head(d), Head(u), Tail(u))>> \in R
      <3>1. u # <<>> /\ Len(d) # 0
        BY <2>1, <2>3, EmptySeq
      <3>2. PICK c \in Seq(Fields) : c = Tail(d) /\ Rest(c, d) /\ Head(d) = d[1]
        BY <2>3, TailRests
      <3>3. PICK v \in Seq(Wants) : v = Tail(u) /\ Rest(v, u) /\ Head(u) = u[1]
        BY <3>1, TailRests
      <3>4. Head(d).count = 0 /\ Head(d).field = Head(u).field
        BY <1>3, <2>1, <3>1, <3>2, <3>3 DEF Flat
      <3>5. Flat(c, v)
        BY <1>3, <2>1, <3>1, <3>2, <3>3 DEF Flat, Rest
      <3>6. ~TooMany(Head(u).field, 0)
        BY StorageConstants DEF TooMany
      <3>7. NextReads(Head(d), Head(u), v) = v
        <4>1. Head(u) \in Wants
          BY <3>1, HeadTailProperties
        <4>2. Entry(Head(u).field) \in Seq(Wants)
          BY <4>1, EntryTyped DEF Wants
        <4>3. Times(0, Entry(Head(u).field)) = <<>>
          BY <4>2, TimesNone
        <4> QED BY <3>4, <4>3, ConcatEmptySeq DEF NextReads
      <3>8. <<c, v>> \in R
        BY <1>1, <3>5
      <3> QED BY <3>1, <3>2, <3>3, <3>4, <3>6, <3>7, <3>8
    <2> QED BY <2>2, <2>3
  <1>4. Follows(R)
    BY <1>1, <1>2, <1>3 DEF Follows
  <1>5. <<e, t>> \in R
    BY <1>1 DEF Flat
  <1> QED BY <1>4, <1>5 DEF Reads

\* The reads t ask for the fields of these names, in this order.
Asks(t, names) ==
    /\ names \in Seq(Names) /\ t \in Seq(Wants) /\ Len(t) = Len(names)
    /\ \A i \in 1 .. Len(names) : t[i].field = names[i]

LEMMA ReadsPlain ==
    ASSUME NEW names, NEW t, Asks(t, names)
    PROVE  Reads(Plain(names), t)
  <1>1. PICK n \in Nat : /\ n = Len(names) /\ DOMAIN names = 1 .. n
                         /\ \A i \in 1 .. n : names[i] \in Names
    BY LenProperties, ElementOfSeq DEF Asks
  <1>2. Plain(names) = [i \in 1 .. n |-> [field |-> names[i], count |-> 0]]
    BY <1>1 DEF Plain
  <1>3. ASSUME NEW m \in Names
        PROVE  [field |-> m, count |-> 0] \in Fields
    BY DEF Fields
  <1>4. Plain(names) \in [1 .. n -> Fields]
    BY <1>1, <1>2, <1>3
  <1>5. ASSUME NEW e \in [1 .. n -> Fields]
        PROVE  e \in Seq(Fields) /\ Len(e) = n
    OBVIOUS
  <1>6. \A i \in 1 .. n : Plain(names)[i].field = names[i] /\ Plain(names)[i].count = 0
    BY <1>2
  <1>7. Flat(Plain(names), t)
    <2>1. t \in Seq(Wants) /\ Len(t) = n /\ \A i \in 1 .. n : t[i].field = names[i]
      BY <1>1 DEF Asks
    <2>2. Plain(names) \in Seq(Fields) /\ Len(Plain(names)) = n
      BY <1>4, <1>5
    <2> HIDE DEF Plain
    <2> QED BY <1>6, <2>1, <2>2 DEF Flat
  <1> QED BY <1>7, ReadsFlat

LEMMA AsksTyped ==
    ASSUME NEW names \in Seq(Names)
    PROVE  Asks(Must(names), names) /\ Asks(IfMore(names), names)
  <1>1. /\ Must(names) \in Seq(Wants) /\ IfMore(names) \in Seq(Wants)
        /\ Len(Must(names)) = Len(names) /\ Len(IfMore(names)) = Len(names)
    BY MustTyped
  <1>2. ASSUME NEW i \in 1 .. Len(names)
        PROVE  Must(names)[i].field = names[i] /\ IfMore(names)[i].field = names[i]
    <2>1. /\ Must(names)[i] = [field |-> names[i], ifMore |-> FALSE]
          /\ IfMore(names)[i] = [field |-> names[i], ifMore |-> TRUE]
      BY MustTyped
    <2>2. /\ [field |-> names[i], ifMore |-> FALSE].field = names[i]
          /\ [field |-> names[i], ifMore |-> TRUE].field = names[i]
      OBVIOUS
    <2> QED BY <2>1, <2>2
  <1> QED BY <1>1, <1>2 DEF Asks

LEMMA AsksJoined ==
    ASSUME NEW t, NEW n, Asks(t, n), NEW u, NEW m, Asks(u, m)
    PROVE  Asks(t \o u, n \o m)
  <1>1. /\ n \in Seq(Names) /\ m \in Seq(Names) /\ t \in Seq(Wants) /\ u \in Seq(Wants)
        /\ Len(t) = Len(n) /\ Len(u) = Len(m) /\ Len(n) \in Nat /\ Len(m) \in Nat
        /\ \A i \in 1 .. Len(n) : t[i].field = n[i]
        /\ \A i \in 1 .. Len(m) : u[i].field = m[i]
    BY LenProperties DEF Asks
  <1>2. PICK v \in Seq(Wants) : v = t \o u /\ Joins(v, t, u)
    BY <1>1, ConcatJoins
  <1>3. PICK l \in Seq(Names) : l = n \o m /\ Joins(l, n, m)
    BY <1>1, ConcatJoins
  <1>4. ASSUME NEW i \in 1 .. Len(l)
        PROVE  v[i].field = l[i]
    <2>1. CASE i <= Len(n)
      <3>1. v[i] = t[i] /\ l[i] = n[i] /\ t[i].field = n[i]
        BY <1>1, <1>2, <1>3, <2>1 DEF Joins
      <3> QED BY <3>1
    <2>2. CASE ~(i <= Len(n))
      <3>1. PICK j \in 1 .. Len(m) : j = i - Len(n)
        <4>1. i \in 1 .. Len(n) + Len(m)
          BY <1>3 DEF Joins
        <4>2. i - Len(n) \in 1 .. Len(m)
          BY <1>1, <2>2, <4>1
        <4> QED BY <4>2
      <3>2. v[i] = u[j] /\ l[i] = m[j] /\ u[j].field = m[j]
        <4>1. i \in 1 .. Len(n) + Len(m) /\ i \in 1 .. Len(t) + Len(u)
          BY <1>1, <1>3 DEF Joins
        <4>2. v[i] = u[i - Len(t)]
          BY <1>1, <1>2, <2>2, <4>1 DEF Joins
        <4>3. l[i] = m[i - Len(n)]
          BY <1>1, <1>3, <2>2, <4>1 DEF Joins
        <4> QED BY <1>1, <3>1, <4>2, <4>3
      <3> QED BY <3>2
    <2> QED BY <2>1, <2>2
  <1>5. Len(v) = Len(l)
    BY <1>1, <1>2, <1>3 DEF Joins
  <1>6. Asks(v, l)
    BY <1>4, <1>5 DEF Asks
  <1> QED BY <1>2, <1>3, <1>6

-----------------------------------------------------------------------------
(* Every decoder reads what its encoder writes                             *)

LEMMA MetaRead == Reads(EncodeProjectMeta, DecodeProjectMeta)
  <1>1. /\ <<"Owner", "Name", "Description", "Paused", "Tx", "Metadata">> \in Seq(Names)
        /\ <<"URL">> \in Seq(Names)
    BY DEF Names
  <1>2. <<"Owner", "Name", "Description", "Paused", "Tx", "Metadata", "URL">>
            = <<"Owner", "Name", "Description", "Paused", "Tx", "Metadata">> \o <<"URL">>
    OBVIOUS
  <1>3. Asks(DecodeProjectMeta,
             <<"Owner", "Name", "Description", "Paused", "Tx", "Metadata">> \o <<"URL">>)
    BY <1>1, AsksTyped, AsksJoined DEF DecodeProjectMeta
  <1> QED BY <1>2, <1>3, ReadsPlain DEF EncodeProjectMeta

LEMMA FinanceRead == Reads(EncodeProjectFinance, DecodeProjectFinance)
  <1>1. <<"FundsAsset", "StakeTotal", "MemberCount">> \in Seq(Names)
    BY DEF Names
  <1> QED BY <1>1, AsksTyped, ReadsPlain DEF EncodeProjectFinance, DecodeProjectFinance

LEMMA OptionRead == Reads(encodeProposalOption, decodeProposalOption)
  <1>1. <<"Text", "URL", "WeightTotal", "VoterCount">> \in Seq(Names)
    BY DEF Names
  <1> QED BY <1>1, AsksTyped, ReadsPlain DEF encodeProposalOption, decodeProposalOption

LEMMA HistoryRead == Reads(saveStakeHistory, loadStakeHistory)
  <1>1. <<"Stake", "Timestamp">> \in Seq(Names)
    BY DEF Names
  <1> QED BY <1>1, AsksTyped, ReadsPlain DEF saveStakeHistory, loadStakeHistory

LEMMA NumberRead == Reads(Number, Must(<<"Number">>))
  <1>1. <<"Number">> \in Seq(Names)
    BY DEF Names
  <1> QED BY <1>1, AsksTyped, ReadsPlain DEF Number

LEMMA MemberRead == Reads(encodeMember, decodeMember)
  <1> DEFINE a == <<"Address", "Stake", "JoinedAt", "LastActionAt", "ExitRequested",
                    "Reputation">>
             b == <<"StakeIncrement">>
             c == <<"JoinSeq", "VoteLockUntil">>
             d == <<"UnstakeRequested", "UnstakePending">>
  <1>1. a \in Seq(Names) /\ b \in Seq(Names) /\ c \in Seq(Names) /\ d \in Seq(Names)
    BY DEF Names
  <1>2. <<"Address", "Stake", "JoinedAt", "LastActionAt", "ExitRequested",
          "Reputation", "StakeIncrement", "JoinSeq", "VoteLockUntil",
          "UnstakeRequested", "UnstakePending">> = ((a \o b) \o c) \o d
    OBVIOUS
  <1>3. decodeMember = ((Must(a) \o IfMore(b)) \o Must(c)) \o IfMore(d)
    BY Zenon DEF decodeMember
  <1>4. encodeMember = Plain(((a \o b) \o c) \o d)
    BY <1>2 DEF encodeMember
  <1> HIDE DEF a, b, c, d
  <1>5. Asks(Must(a) \o IfMore(b), a \o b)
    BY <1>1, AsksTyped, AsksJoined
  <1>6. Asks((Must(a) \o IfMore(b)) \o Must(c), (a \o b) \o c)
    BY <1>1, <1>5, AsksTyped, AsksJoined
  <1>7. Asks(decodeMember, ((a \o b) \o c) \o d)
    BY <1>1, <1>3, <1>6, AsksTyped, AsksJoined
  <1> QED BY <1>4, <1>7, ReadsPlain

\* The same as \o, for the provers: they take it for a function of their own.
Cat(s, t) == s \o t

LEMMA CatTyped ==
    ASSUME NEW S, NEW s \in Seq(S), NEW t \in Seq(S)
    PROVE  Cat(s, t) \in Seq(S)
  BY JoinedTyped DEF Cat

LEMMA CatAssociative ==
    ASSUME NEW S, NEW s \in Seq(S), NEW t \in Seq(S), NEW u \in Seq(S)
    PROVE  Cat(Cat(s, t), u) = Cat(s, Cat(t, u))
  BY ConcatAssociative DEF Cat

LEMMA SixJoined ==
    ASSUME NEW S, NEW a \in Seq(S), NEW b \in Seq(S), NEW c \in Seq(S),
           NEW d \in Seq(S), NEW f \in Seq(S), NEW g \in Seq(S)
    PROVE  Cat(Cat(Cat(Cat(a, b), c), d), Cat(f, g))
              = Cat(Cat(Cat(a, Cat(Cat(b, c), d)), f), g)
  <1>1. Cat(b, c) \in Seq(S) /\ Cat(Cat(a, b), c) = Cat(a, Cat(b, c))
    BY CatTyped, CatAssociative
  <1>2. /\ Cat(Cat(b, c), d) \in Seq(S)
        /\ Cat(Cat(a, Cat(b, c)), d) = Cat(a, Cat(Cat(b, c), d))
    BY <1>1, CatTyped, CatAssociative
  <1>3. Cat(a, Cat(Cat(b, c), d)) \in Seq(S)
    BY <1>2, CatTyped
  <1>4. Cat(Cat(a, Cat(Cat(b, c), d)), Cat(f, g))
            = Cat(Cat(Cat(a, Cat(Cat(b, c), d)), f), g)
    BY <1>3, CatAssociative
  <1> QED BY <1>1, <1>2, <1>4, Zenon

LEMMA MustJoined ==
    ASSUME NEW n \in Seq(Names), NEW m \in Seq(Names)
    PROVE  Must(n \o m) = Must(n) \o Must(m)
  <1>1. PICK l \in Seq(Names) : l = n \o m /\ Joins(l, n, m)
    BY ConcatJoins
  <1>2. /\ Must(n) \in Seq(Wants) /\ Len(Must(n)) = Len(n)
        /\ Must(m) \in Seq(Wants) /\ Len(Must(m)) = Len(m)
        /\ Must(l) \in Seq(Wants) /\ Len(Must(l)) = Len(l)
        /\ Len(n) \in Nat /\ Len(m) \in Nat
    BY MustTyped, LenProperties
  <1>3. PICK v \in Seq(Wants) : v = Must(n) \o Must(m) /\ Joins(v, Must(n), Must(m))
    BY <1>2, ConcatJoins
  <1>4. Len(l) = Len(n) + Len(m) /\ Len(v) = Len(n) + Len(m)
    BY <1>1, <1>2, <1>3 DEF Joins
  <1>5. ASSUME NEW i \in 1 .. Len(l)
        PROVE  Must(l)[i] = v[i]
    <2>1. Must(l)[i] = [field |-> l[i], ifMore |-> FALSE]
      BY MustTyped
    <2>2. CASE i <= Len(n)
      <3>1. l[i] = n[i] /\ v[i] = Must(n)[i]
        BY <1>1, <1>2, <1>3, <1>4, <2>2 DEF Joins
      <3>2. i \in 1 .. Len(n)
        BY <2>2, <1>2, <1>4
      <3>3. Must(n)[i] = [field |-> n[i], ifMore |-> FALSE]
        BY <3>2, MustTyped
      <3> QED BY <2>1, <3>1, <3>3
    <2>3. CASE ~(i <= Len(n))
      <3>1. PICK j \in 1 .. Len(m) : j = i - Len(n)
        <4>1. i - Len(n) \in 1 .. Len(m)
          BY <1>2, <1>4, <2>3
        <4> QED BY <4>1
      <3>2. l[i] = m[j]
        BY <1>1, <1>4, <2>3, <3>1 DEF Joins
      <3>3. v[i] = Must(m)[j]
        <4>1. v[i] = Must(m)[i - Len(Must(n))]
          BY <1>2, <1>3, <1>4, <2>3 DEF Joins
        <4> QED BY <1>2, <3>1, <4>1
      <3>4. Must(m)[j] = [field |-> m[j], ifMore |-> FALSE]
        BY MustTyped
      <3> QED BY <2>1, <3>2, <3>3, <3>4
    <2> QED BY <2>2, <2>3
  <1>6. Must(l) = v
    BY <1>2, <1>4, <1>5, SeqEqual
  <1> QED BY <1>1, <1>3, <1>6

\* A count and its entries, read under the name of the count.
LEMMA CountedRead ==
    ASSUME NEW f \in Names, NEW n \in Nat, ~TooMany(f, n), NEW e, Reads(e, Entry(f))
    PROVE  Reads(Counted(f, n, e), Must(<<f>>)) /\ Reads(Counted(f, n, e), IfMore(<<f>>))
  <1>1. PICK v \in Wants : v = [field |-> f, ifMore |-> FALSE] /\ v.field = f
    <2>1. [field |-> f, ifMore |-> FALSE] \in Wants
      BY DEF Wants
    <2> QED BY <2>1
  <1>2. PICK w \in Wants : w = [field |-> f, ifMore |-> TRUE] /\ w.field = f
    <2>1. [field |-> f, ifMore |-> TRUE] \in Wants
      BY DEF Wants
    <2> QED BY <2>1
  <1>3. <<f>> \in Seq(Names) /\ Len(<<f>>) = 1 /\ <<f>>[1] = f
    OBVIOUS
  <1>4. /\ Must(<<f>>) \in Seq(Wants) /\ IfMore(<<f>>) \in Seq(Wants)
        /\ Len(Must(<<f>>)) = 1 /\ Len(IfMore(<<f>>)) = 1
        /\ Must(<<f>>)[1] = v /\ IfMore(<<f>>)[1] = w
    <2>1. PICK l \in Seq(Names) : l = <<f>> /\ Len(l) = 1 /\ l[1] = f
      BY <1>3
    <2>2. /\ Must(l) \in Seq(Wants) /\ IfMore(l) \in Seq(Wants)
          /\ Len(Must(l)) = 1 /\ Len(IfMore(l)) = 1
          /\ Must(l)[1] = [field |-> l[1], ifMore |-> FALSE]
          /\ IfMore(l)[1] = [field |-> l[1], ifMore |-> TRUE]
      <3>1. Len(l) = 1 /\ 1 \in 1 .. Len(l)
        BY <2>1
      <3> QED BY <3>1, MustTyped
    <2> HIDE DEF Must, IfMore
    <2> QED BY <1>1, <1>2, <2>1, <2>2
  <1>5. /\ <<v>> \in Seq(Wants) /\ Len(<<v>>) = 1 /\ <<v>>[1] = v
        /\ <<w>> \in Seq(Wants) /\ Len(<<w>>) = 1 /\ <<w>>[1] = w
    OBVIOUS
  <1>6. Must(<<f>>) = <<v>>
    BY <1>4, <1>5, SeqEqual
  <1>7. IfMore(<<f>>) = <<w>>
    BY <1>4, <1>5, SeqEqual
  <1> QED BY <1>1, <1>2, <1>6, <1>7, ReadsCounted

LEMMA VoteRead ==
    ASSUME NEW s, s.choices \in Nat
    PROVE  Reads(encodeVoteRecord(s), decodeVoteRecord)
  <1>1. /\ <<"Choices">> \in Seq(Names) /\ <<"Weight">> \in Seq(Names)
        /\ <<"Choice">> \in Seq(Names) /\ "Choices" \in Names
    BY DEF Names
  <1>2. Reads(Plain(<<"Choice">>), Entry("Choices"))
    <2>1. Entry("Choices") = Must(<<"Choice">>)
      BY DEF Entry
    <2> QED BY <1>1, <2>1, AsksTyped, ReadsPlain
  <1>3. ~TooMany("Choices", s.choices)
    BY DEF TooMany
  <1>4. Reads(Counted("Choices", s.choices, Plain(<<"Choice">>)), Must(<<"Choices">>))
    BY <1>1, <1>2, <1>3, CountedRead
  <1>5. Reads(Plain(<<"Weight">>), Must(<<"Weight">>))
    BY <1>1, AsksTyped, ReadsPlain
  <1>6. <<"Choices", "Weight">> = <<"Choices">> \o <<"Weight">>
    OBVIOUS
  <1>7. decodeVoteRecord = Must(<<"Choices">>) \o Must(<<"Weight">>)
    BY <1>1, <1>6, MustJoined DEF decodeVoteRecord
  <1> QED BY <1>4, <1>5, <1>7, ReadsJoined DEF encodeVoteRecord

LEMMA ConfigRead ==
    ASSUME NEW s, s.nft \in Nat
    PROVE  Reads(encodeProjectConfig(s), decodeProjectConfig)
  <1> DEFINE a == <<"VotingSystem", "ThresholdPercent", "QuorumPercent",
                    "ProposalDurationHours", "ExecutionDelayHours", "LeaveCooldownHours",
                    "ProposalCost", "StakeMinAmt">>
             b == <<"MembershipNFTContract">>
             c == <<"MembershipNFTContractFunction">>
             d == <<"MembershipNFT">>
             f == <<"MembershipNftPayloadFormat", "ProposalsMembersOnly">>
             g == <<"WhitelistOnly">>
             NFT(name) == Counted(name, s.nft, Plain(<<"Text">>))
  <1>1. /\ a \in Seq(Names) /\ b \in Seq(Names) /\ c \in Seq(Names)
        /\ d \in Seq(Names) /\ f \in Seq(Names) /\ g \in Seq(Names)
        /\ <<"Text">> \in Seq(Names)
        /\ "MembershipNFTContract" \in Names /\ "MembershipNFTContractFunction" \in Names
        /\ "MembershipNFT" \in Names
    BY DEF Names
  <1>2. ASSUME NEW n \in {"MembershipNFTContract", "MembershipNFTContractFunction",
                          "MembershipNFT"}
        PROVE  Reads(NFT(n), Must(<<n>>))
    <2>1. Entry(n) = Must(<<"Text">>)
      BY DEF Entry
    <2>2. Reads(Plain(<<"Text">>), Entry(n))
      BY <1>1, <2>1, AsksTyped, ReadsPlain
    <2>3. ~TooMany(n, s.nft)
      BY DEF TooMany
    <2>4. n \in Names
      BY <1>1
    <2> QED BY <2>2, <2>3, <2>4, CountedRead
  <1>3. <<"MembershipNFTContract", "MembershipNFTContractFunction", "MembershipNFT">>
            = (b \o c) \o d
    OBVIOUS
  <1>4. <<"MembershipNftPayloadFormat", "ProposalsMembersOnly", "WhitelistOnly">> = f \o g
    OBVIOUS
  <1>5. encodeProjectConfig(s)
            = (((Plain(a) \o NFT("MembershipNFTContract"))
                  \o NFT("MembershipNFTContractFunction"))
                 \o NFT("MembershipNFT")) \o Plain(f \o g)
    BY <1>4 DEF encodeProjectConfig
  <1>6. decodeProjectConfig
            = ((Must(a) \o Must((b \o c) \o d)) \o Must(f)) \o IfMore(g)
    BY <1>3 DEF decodeProjectConfig
  <1>7. /\ Reads(NFT("MembershipNFTContract"), Must(b))
        /\ Reads(NFT("MembershipNFTContractFunction"), Must(c))
        /\ Reads(NFT("MembershipNFT"), Must(d))
    BY <1>2
  <1> HIDE DEF a, b, c, d, f, g, NFT
  <1>8. Must((b \o c) \o d) = (Must(b) \o Must(c)) \o Must(d)
    <2>1. b \o c \in Seq(Names)
      BY <1>1, JoinedTyped
    <2>2. Must((b \o c) \o d) = Must(b \o c) \o Must(d)
      BY <1>1, <2>1, MustJoined
    <2>3. Must(b \o c) = Must(b) \o Must(c)
      BY <1>1, MustJoined
    <2> QED BY <2>2, <2>3
  <1>9. Reads(Plain(a), Must(a))
    BY <1>1, AsksTyped, ReadsPlain
  <1>10. Reads(Plain(f \o g), Must(f) \o IfMore(g))
    BY <1>1, AsksTyped, AsksJoined, ReadsPlain
  <1>11. Reads(encodeProjectConfig(s),
               (((Must(a) \o Must(b)) \o Must(c)) \o Must(d)) \o (Must(f) \o IfMore(g)))
    BY <1>5, <1>7, <1>9, <1>10, ReadsJoined
  <1>12. (((Must(a) \o Must(b)) \o Must(c)) \o Must(d)) \o (Must(f) \o IfMore(g))
            = ((Must(a) \o ((Must(b) \o Must(c)) \o Must(d))) \o Must(f)) \o IfMore(g)
    <2>1. PICK u \in Seq(Wants) : u = Must(a)
      BY <1>1, MustTyped
    <2>2. PICK v \in Seq(Wants) : v = Must(b)
      BY <1>1, MustTyped
    <2>3. PICK w \in Seq(Wants) : w = Must(c)
      BY <1>1, MustTyped
    <2>4. PICK x \in Seq(Wants) : x = Must(d)
      BY <1>1, MustTyped
    <2>5. PICK y \in Seq(Wants) : y = Must(f)
      BY <1>1, MustTyped
    <2>6. PICK z \in Seq(Wants) : z = IfMore(g)
      BY <1>1, MustTyped
    <2>7. Cat(Cat(Cat(Cat(u, v), w), x), Cat(y, z))
              = Cat(Cat(Cat(u, Cat(Cat(v, w), x)), y), z)
      BY SixJoined
    <2> HIDE DEF Must, IfMore
    <2> QED BY <2>1, <2>2, <2>3, <2>4, <2>5, <2>6, <2>7, Zenon DEF Cat
  <1> QED BY <1>6, <1>8, <1>11, <1>12

\* Reads that are listed one by one, asked for as a list.
LEMMA PlainRead ==
    ASSUME NEW names \in Seq(Names)
    PROVE  Reads(Plain(names), Must(names))
  BY AsksTyped, ReadsPlain

LEMMA OutcomeRead ==
    ASSUME NEW s, s.outcome \in Nat, s.meta \in Nat, s.payouts \in Nat, s.calls \in Nat,
           s.assets \in Nat, Parsed(s)
    PROVE  Reads(encodeProposalOutcome(s), decodeProposalOutcome)
  <1> DEFINE meta == Counted("Meta", s.meta, Plain(<<"MetaKey", "MetaValue">>))
             payout == Counted("Payout", s.payouts,
                               Plain(<<"PayoutAddress", "Amount", "Asset">>))
             assets == Counted("ICCAssets", s.assets, Plain(<<"Asset", "Amount">>))
             call == Plain(<<"ContractAddress", "Function", "Payload">>) \o assets
             calls == Counted("ICC", s.calls, call)
  <1>1. /\ "Meta" \in Names /\ "Payout" \in Names /\ "ICCAssets" \in Names
        /\ "ICC" \in Names /\ "Outcome" \in Names
    BY DEF Names
  <1>2. /\ <<"MetaKey", "MetaValue">> \in Seq(Names)
        /\ <<"PayoutAddress", "Amount", "Asset">> \in Seq(Names)
        /\ <<"Asset", "Amount">> \in Seq(Names)
        /\ <<"ContractAddress", "Function", "Payload">> \in Seq(Names)
        /\ <<"ICCAssets">> \in Seq(Names) /\ <<"Meta">> \in Seq(Names)
        /\ <<"Payout">> \in Seq(Names) /\ <<"ICC">> \in Seq(Names)
    BY DEF Names
  <1>3. /\ Entry("Meta") = Must(<<"MetaKey", "MetaValue">>)
        /\ Entry("Payout") = Must(<<"PayoutAddress", "Amount", "Asset">>)
        /\ Entry("ICCAssets") = Must(<<"Asset", "Amount">>)
        /\ Entry("ICC") = Must(<<"ContractAddress", "Function", "Payload", "ICCAssets">>)
        /\ Entry("Outcome") = Must(<<"Meta", "Payout">>) \o IfMore(<<"ICC">>)
    BY DEF Entry
  <1>4. /\ ~TooMany("Meta", s.meta) /\ ~TooMany("Payout", s.payouts)
        /\ ~TooMany("ICCAssets", s.assets) /\ ~TooMany("ICC", s.calls)
        /\ ~TooMany("Outcome", s.outcome)
    BY StorageConstants DEF TooMany, Parsed
  <1>5. Reads(meta, Must(<<"Meta">>))
    <2>1. Reads(Plain(<<"MetaKey", "MetaValue">>), Entry("Meta"))
      BY <1>2, <1>3, PlainRead
    <2> QED BY <1>1, <1>4, <2>1, CountedRead
  <1>6. Reads(payout, Must(<<"Payout">>))
    <2>1. Reads(Plain(<<"PayoutAddress", "Amount", "Asset">>), Entry("Payout"))
      BY <1>2, <1>3, PlainRead
    <2> QED BY <1>1, <1>4, <2>1, CountedRead
  <1>7. Reads(assets, Must(<<"ICCAssets">>))
    <2>1. Reads(Plain(<<"Asset", "Amount">>), Entry("ICCAssets"))
      BY <1>2, <1>3, PlainRead
    <2> QED BY <1>1, <1>4, <2>1, CountedRead
  <1>8. Reads(call, Entry("ICC"))
    <2>1. Reads(Plain(<<"ContractAddress", "Function", "Payload">>),
                Must(<<"ContractAddress", "Function", "Payload">>))
      BY <1>2, PlainRead
    <2>2. <<"ContractAddress", "Function", "Payload", "ICCAssets">>
              = <<"ContractAddress", "Function", "Payload">> \o <<"ICCAssets">>
      OBVIOUS
    <2>3. Must(<<"ContractAddress", "Function", "Payload">> \o <<"ICCAssets">>)
              = Must(<<"ContractAddress", "Function", "Payload">>) \o Must(<<"ICCAssets">>)
      BY <1>2, MustJoined
    <2>4. Entry("ICC")
              = Must(<<"ContractAddress", "Function", "Payload">>) \o Must(<<"ICCAssets">>)
      BY <1>3, <2>2, <2>3
    <2> QED BY <1>7, <2>1, <2>4, ReadsJoined
  <1>9. Reads(calls, IfMore(<<"ICC">>))
    BY <1>1, <1>4, <1>8, CountedRead
  <1>10. Entry("Outcome") = (Must(<<"Meta">>) \o Must(<<"Payout">>)) \o IfMore(<<"ICC">>)
    <2>1. <<"Meta", "Payout">> = <<"Meta">> \o <<"Payout">>
      OBVIOUS
    <2>2. Must(<<"Meta">> \o <<"Payout">>) = Must(<<"Meta">>) \o Must(<<"Payout">>)
      BY <1>2, MustJoined
    <2> QED BY <1>3, <2>1, <2>2
  <1>11. encodeProposalOutcome(s) = Counted("Outcome", s.outcome, (meta \o payout) \o calls)
    BY Zenon DEF encodeProposalOutcome
  <1> HIDE DEF meta, payout, calls
  <1>12. Reads((meta \o payout) \o calls, Entry("Outcome"))
    BY <1>5, <1>6, <1>9, <1>10, ReadsJoined
  <1>13. Reads(encodeProposalOutcome(s), Must(<<"Outcome">>))
    BY <1>1, <1>4, <1>11, <1>12, CountedRead
  <1> QED BY <1>13 DEF decodeProposalOutcome

LEMMA ProposalRead ==
    ASSUME NEW s, s.outcome \in Nat, s.meta \in Nat, s.payouts \in Nat, s.calls \in Nat,
           s.assets \in Nat, Parsed(s)
    PROVE  Reads(EncodeProposal(s), DecodeProposal)
  <1> DEFINE a == <<"ID", "ProjectID", "Creator", "Name", "Description", "OptionCount",
                    "DurationHours", "CreatedAt", "State">>
             b == <<"Tx", "StakeSnapshot", "MemberCountSnapshot", "Metadata", "IsPoll",
                    "ResultOptionID", "ExecutableAt">>
             c == <<"URL", "VoterCount", "CostPaid">>
             d == <<"JoinSeqSnapshot">>
  <1>1. a \in Seq(Names) /\ b \in Seq(Names) /\ c \in Seq(Names) /\ d \in Seq(Names)
    BY DEF Names
  <1>2. <<"Tx", "StakeSnapshot", "MemberCountSnapshot", "Metadata", "IsPoll",
          "ResultOptionID", "ExecutableAt", "URL", "VoterCount", "CostPaid",
          "JoinSeqSnapshot">> = b \o (c \o d)
    OBVIOUS
  <1>3. EncodeProposal(s) = (Plain(a) \o encodeProposalOutcome(s)) \o Plain(b \o (c \o d))
    BY <1>2 DEF EncodeProposal
  <1>4. DecodeProposal
            = ((Must(a) \o decodeProposalOutcome) \o Must(b)) \o (IfMore(c) \o Must(d))
    BY Zenon DEF DecodeProposal, DecodeProposalEnd
  <1> HIDE DEF a, b, c, d
  <1>5. Reads(Plain(a), Must(a))
    BY <1>1, PlainRead
  <1>6. Reads(encodeProposalOutcome(s), decodeProposalOutcome)
    BY OutcomeRead
  <1>7. Reads(Plain(b \o (c \o d)), Must(b) \o (IfMore(c) \o Must(d)))
    <2>1. Asks(IfMore(c) \o Must(d), c \o d)
      BY <1>1, AsksTyped, AsksJoined
    <2>2. Asks(Must(b) \o (IfMore(c) \o Must(d)), b \o (c \o d))
      BY <1>1, <2>1, AsksTyped, AsksJoined
    <2> QED BY <2>2, ReadsPlain
  <1>8. Reads(EncodeProposal(s),
              (Must(a) \o decodeProposalOutcome) \o (Must(b) \o (IfMore(c) \o Must(d))))
    BY <1>3, <1>5, <1>6, <1>7, ReadsJoined
  <1>9. (Must(a) \o decodeProposalOutcome) \o (Must(b) \o (IfMore(c) \o Must(d)))
            = ((Must(a) \o decodeProposalOutcome) \o Must(b)) \o (IfMore(c) \o Must(d))
    <2>1. PICK u \in Seq(Wants) : u = Must(a)
      BY <1>1, MustTyped
    <2>2. PICK v \in Seq(Wants) : v = decodeProposalOutcome
      BY <1>6, ReadsTyped
    <2>3. PICK w \in Seq(Wants) : w = Must(b)
      BY <1>1, MustTyped
    <2>4. PICK x \in Seq(Wants) : x = IfMore(c)
      BY <1>1, MustTyped
    <2>5. PICK y \in Seq(Wants) : y = Must(d)
      BY <1>1, MustTyped
    <2>6. Cat(u, v) \in Seq(Wants) /\ Cat(x, y) \in Seq(Wants)
      BY CatTyped
    <2>7. Cat(Cat(Cat(u, v), w), Cat(x, y)) = Cat(Cat(u, v), Cat(w, Cat(x, y)))
      BY <2>6, CatAssociative
    <2> HIDE DEF Must, IfMore, decodeProposalOutcome
    <2> QED BY <2>1, <2>2, <2>3, <2>4, <2>5, <2>7, Zenon DEF Cat
  <1> QED BY <1>4, <1>8, <1>9

\* What a payload may lead to is read back, field by field, to the last one.
LEMMA EncodedRead ==
    ASSUME NEW r \in RecordIds, NEW s \in Shapes, Parsed(s)
    PROVE  Reads(Encoded(r.kind, s), Decoder(r.kind))
  <1>1. /\ s.nft \in Nat /\ s.outcome \in Nat /\ s.meta \in Nat /\ s.payouts \in Nat
        /\ s.calls \in Nat /\ s.assets \in Nat /\ s.choices \in Nat
    BY StorageConstants
  <1>2. Reads(encodeProjectConfig(s), decodeProjectConfig)
    BY <1>1, ConfigRead
  <1>3. Reads(encodeVoteRecord(s), decodeVoteRecord)
    BY <1>1, VoteRead
  <1>4. Reads(EncodeProposal(s), DecodeProposal)
    BY <1>1, ProposalRead
  <1> QED BY <1>2, <1>3, <1>4, MetaRead, FinanceRead, MemberRead, OptionRead, HistoryRead,
             NumberRead
          DEF Encoded, Decoder

-----------------------------------------------------------------------------
(* No rule sees a field that was not there                                 *)

\* A record that ends before these reads is refused.
Compulsory(t) == \E i \in 1 .. Len(t) : ~t[i].ifMore

\* After every deciding field, or at it, there is one that must be read.
Covered(t) ==
    /\ t \in Seq(Wants)
    /\ \A i \in 1 .. Len(t) :
         t[i].field \in Deciding => \E j \in i .. Len(t) : ~t[j].ifMore

LEMMA CoveredTail ==
    ASSUME NEW t, Covered(t), t # <<>>
    PROVE  Covered(Tail(t))
  <1>1. PICK r \in Seq(Wants) : r = Tail(t) /\ Rest(r, t)
    BY TailRests DEF Covered
  <1>2. Len(t) \in Nat \ {0} /\ Len(r) \in Nat /\ Len(r) = Len(t) - 1
    BY <1>1, EmptySeq, LenProperties DEF Covered, Rest
  <1>3. ASSUME NEW i \in 1 .. Len(r), r[i].field \in Deciding
        PROVE  \E j \in i .. Len(r) : ~r[j].ifMore
    <2>1. i + 1 \in 1 .. Len(t) /\ t[i + 1].field \in Deciding
      BY <1>1, <1>2, <1>3 DEF Rest
    <2>2. PICK k \in i + 1 .. Len(t) : ~t[k].ifMore
      BY <2>1 DEF Covered
    <2>3. PICK j \in i .. Len(r) : k = j + 1
      <3>1. k - 1 \in i .. Len(r)
        BY <1>2
      <3> QED BY <3>1
    <2>4. r[j] = t[k]
      BY <1>1, <1>2, <2>3 DEF Rest
    <2> QED BY <2>2, <2>4
  <1> QED BY <1>1, <1>3 DEF Covered

LEMMA CompulsoryTail ==
    ASSUME NEW t \in Seq(Wants), Compulsory(t), t # <<>>, Head(t).ifMore
    PROVE  Compulsory(Tail(t))
  <1>1. PICK r \in Seq(Wants) : r = Tail(t) /\ Rest(r, t) /\ Head(t) = t[1]
    BY TailRests
  <1>2. Len(t) \in Nat \ {0} /\ Len(r) \in Nat /\ Len(r) = Len(t) - 1
    BY <1>1, EmptySeq, LenProperties DEF Rest
  <1>3. PICK k \in 1 .. Len(t) : ~t[k].ifMore
    BY DEF Compulsory
  <1>4. PICK j \in 1 .. Len(r) : k = j + 1
    <2>1. k # 1
      BY <1>1, <1>3
    <2>2. k - 1 \in 1 .. Len(r)
      BY <1>2, <2>1
    <2> QED BY <2>2
  <1>5. r[j] = t[k]
    BY <1>1, <1>2, <1>4 DEF Rest
  <1> QED BY <1>1, <1>3, <1>5 DEF Compulsory

\* What covers the second list covers both, if it must be read at all.
LEMMA CoveredJoined ==
    ASSUME NEW t \in Seq(Wants), NEW u, Covered(u), Covered(t) \/ Compulsory(u)
    PROVE  Covered(t \o u)
  <1>1. PICK v \in Seq(Wants) : v = t \o u /\ Joins(v, t, u)
    BY ConcatJoins DEF Covered
  <1>2. Len(t) \in Nat /\ Len(u) \in Nat /\ Len(v) = Len(t) + Len(u)
    BY <1>1, LenProperties DEF Covered, Joins
  <1>3. ASSUME NEW k \in 1 .. Len(u)
        PROVE  Len(t) + k \in 1 .. Len(v) /\ v[Len(t) + k] = u[k]
    <2>1. PICK m \in 1 .. Len(v) : m = Len(t) + k /\ ~(m <= Len(t)) /\ m - Len(t) = k
      BY <1>2
    <2>2. v[m] = u[m - Len(t)]
      BY <1>1, <1>2, <2>1 DEF Joins
    <2> QED BY <2>1, <2>2
  <1>4. ASSUME NEW i \in 1 .. Len(v), v[i].field \in Deciding
        PROVE  \E j \in i .. Len(v) : ~v[j].ifMore
    <2>1. CASE i <= Len(t)
      <3>1. v[i] = t[i] /\ i \in 1 .. Len(t)
        BY <1>1, <1>2, <2>1 DEF Joins
      <3>2. CASE Compulsory(u)
        <4>1. PICK k \in 1 .. Len(u) : ~u[k].ifMore
          BY <3>2 DEF Compulsory
        <4>2. Len(t) + k \in i .. Len(v)
          BY <1>2, <2>1
        <4> QED BY <1>3, <4>1, <4>2
      <3>3. CASE Covered(t)
        <4>1. PICK j \in i .. Len(t) : ~t[j].ifMore
          BY <1>4, <3>1, <3>3 DEF Covered
        <4>2. j \in i .. Len(v) /\ v[j] = t[j]
          BY <1>1, <1>2, <3>1 DEF Joins
        <4> QED BY <4>1, <4>2
      <3> QED BY <3>2, <3>3
    <2>2. CASE ~(i <= Len(t))
      <3>1. PICK k \in 1 .. Len(u) : i = Len(t) + k
        <4>1. PICK k \in 1 .. Len(u) : k = i - Len(t)
          <5>1. i - Len(t) \in 1 .. Len(u)
            BY <1>2, <2>2
          <5> QED BY <5>1
        <4>2. i = Len(t) + k
          BY <1>2, <4>1
        <4> QED BY <4>2
      <3>2. u[k].field \in Deciding
        BY <1>3, <1>4, <3>1
      <3>3. PICK j \in k .. Len(u) : ~u[j].ifMore
        BY <3>2 DEF Covered
      <3>4. j \in 1 .. Len(u) /\ Len(t) + j \in i .. Len(v)
        BY <1>2, <3>1
      <3> QED BY <1>3, <3>3, <3>4
    <2> QED BY <2>1, <2>2
  <1>5. Covered(v)
    BY <1>4 DEF Covered
  <1> QED BY <1>1, <1>5

LEMMA CompulsoryJoined ==
    ASSUME NEW t \in Seq(Wants), NEW u \in Seq(Wants), Compulsory(t) \/ Compulsory(u)
    PROVE  Compulsory(t \o u)
  <1>1. PICK v \in Seq(Wants) : v = t \o u /\ Joins(v, t, u)
    BY ConcatJoins
  <1>2. Len(t) \in Nat /\ Len(u) \in Nat /\ Len(v) = Len(t) + Len(u)
    BY <1>1, LenProperties DEF Joins
  <1>3. CASE Compulsory(t)
    <2>1. PICK k \in 1 .. Len(t) : ~t[k].ifMore
      BY <1>3 DEF Compulsory
    <2>2. k \in 1 .. Len(v) /\ v[k] = t[k]
      BY <1>1, <1>2 DEF Joins
    <2> QED BY <1>1, <2>1, <2>2 DEF Compulsory
  <1>4. CASE Compulsory(u)
    <2>1. PICK k \in 1 .. Len(u) : ~u[k].ifMore
      BY <1>4 DEF Compulsory
    <2>2. Len(t) + k \in 1 .. Len(v)
      BY <1>2
    <2>3. PICK m \in 1 .. Len(v) : m = Len(t) + k
      BY <2>2
    <2>4. ~(m <= Len(t)) /\ m - Len(t) = k
      BY <1>2, <2>3
    <2>5. v[m] = u[m - Len(t)]
      BY <1>1, <1>2, <2>4 DEF Joins
    <2> QED BY <1>1, <2>1, <2>4, <2>5 DEF Compulsory
  <1> QED BY <1>3, <1>4

LEMMA MustCovered ==
    ASSUME NEW names \in Seq(Names)
    PROVE  /\ Covered(Must(names))
           /\ names # <<>> => Compulsory(Must(names))
  <1>1. PICK t \in Seq(Wants) :
              /\ t = Must(names) /\ Len(t) = Len(names) /\ Len(names) \in Nat
              /\ \A i \in 1 .. Len(names) : t[i] = [field |-> names[i], ifMore |-> FALSE]
    BY MustTyped, LenProperties
  <1>2. ASSUME NEW i \in 1 .. Len(t)
        PROVE  ~t[i].ifMore
    <2>1. t[i] = [field |-> names[i], ifMore |-> FALSE]
      BY <1>1
    <2> QED BY <2>1
  <1>3. Covered(t)
    BY <1>1, <1>2 DEF Covered
  <1>4. names # <<>> => Compulsory(t)
    <2>1. names # <<>> => 1 \in 1 .. Len(t)
      BY <1>1, EmptySeq
    <2> QED BY <1>2, <2>1 DEF Compulsory
  <1> QED BY <1>1, <1>3, <1>4

\* Reads that ask for no deciding field.
Idle == [field : Names \ Deciding, ifMore : BOOLEAN]

LEMMA IdleCovered ==
    ASSUME NEW t \in Seq(Idle)
    PROVE  Covered(t)
  <1>1. t \in Seq(Wants)
    <2>1. Idle \subseteq Wants
      BY DEF Idle, Wants
    <2> QED BY <2>1, SeqMonotonic
  <1>2. ASSUME NEW i \in 1 .. Len(t)
        PROVE  t[i].field \notin Deciding
    <2>1. t[i] \in Idle
      BY ElementOfSeq
    <2> QED BY <2>1 DEF Idle
  <1> QED BY <1>1, <1>2 DEF Covered

LEMMA IdleTyped ==
    ASSUME NEW names \in Seq(Names \ Deciding)
    PROVE  Must(names) \in Seq(Idle) /\ IfMore(names) \in Seq(Idle)
  <1>1. PICK n \in Nat : n = Len(names) /\ DOMAIN names = 1 .. n
                         /\ names \in [1 .. n -> Names \ Deciding]
    BY LenProperties
  <1>2. /\ Must(names) = [i \in 1 .. n |-> [field |-> names[i], ifMore |-> FALSE]]
        /\ IfMore(names) = [i \in 1 .. n |-> [field |-> names[i], ifMore |-> TRUE]]
    BY <1>1 DEF Must, IfMore
  <1>3. ASSUME NEW i \in 1 .. n
        PROVE  /\ [field |-> names[i], ifMore |-> FALSE] \in Idle
               /\ [field |-> names[i], ifMore |-> TRUE] \in Idle
    <2>1. PICK m \in Names \ Deciding : m = names[i]
      BY <1>1
    <2> QED BY <2>1 DEF Idle
  <1>4. Must(names) \in [1 .. n -> Idle] /\ IfMore(names) \in [1 .. n -> Idle]
    BY <1>2, <1>3
  <1>5. ASSUME NEW t \in [1 .. n -> Idle]
        PROVE  t \in Seq(Idle)
    OBVIOUS
  <1> HIDE DEF Must, IfMore
  <1> QED BY <1>4, <1>5

LEMMA EntryIdle ==
    ASSUME NEW f \in Names
    PROVE  Entry(f) \in Seq(Idle)
  <1> DEFINE Quiet == Names \ Deciding
  <1>1. /\ <<"Meta", "Payout">> \in Seq(Quiet) /\ <<"ICC">> \in Seq(Quiet)
        /\ <<"MetaKey", "MetaValue">> \in Seq(Quiet)
        /\ <<"PayoutAddress", "Amount", "Asset">> \in Seq(Quiet)
        /\ <<"ContractAddress", "Function", "Payload", "ICCAssets">> \in Seq(Quiet)
        /\ <<"Asset", "Amount">> \in Seq(Quiet)
        /\ <<"Choice">> \in Seq(Quiet) /\ <<"Text">> \in Seq(Quiet)
    BY DEF Names, Deciding
  <1> HIDE DEF Quiet
  <1>2. ASSUME NEW n \in Seq(Quiet)
        PROVE  Must(n) \in Seq(Idle) /\ IfMore(n) \in Seq(Idle)
    BY IdleTyped DEF Quiet
  <1>3. Must(<<"Meta", "Payout">>) \o IfMore(<<"ICC">>) \in Seq(Idle)
    BY <1>1, <1>2, JoinedTyped
  <1>4. <<>> \in Seq(Idle)
    BY EmptySeq
  <1> QED BY <1>1, <1>2, <1>3, <1>4 DEF Entry

LEMMA NextCovered ==
    ASSUME NEW h \in Fields, NEW w \in Wants, NEW t, Covered(t)
    PROVE  Covered(NextReads(h, w, t))
  <1>1. h.count \in Nat /\ w.field \in Names
    BY DEF Fields, Wants
  <1>2. Times(h.count, Entry(w.field)) \in Seq(Idle)
    BY <1>1, EntryIdle, TimesTyped
  <1>3. Covered(Times(h.count, Entry(w.field)))
    BY <1>2, IdleCovered
  <1>4. Times(h.count, Entry(w.field)) \in Seq(Wants)
    BY <1>3 DEF Covered
  <1> QED BY <1>3, <1>4, CoveredJoined DEF NextReads

LEMMA MemberCovered == Covered(decodeMember)
  <1> DEFINE a == <<"Address", "Stake", "JoinedAt", "LastActionAt", "ExitRequested",
                    "Reputation">>
             b == <<"StakeIncrement">>
             c == <<"JoinSeq", "VoteLockUntil">>
             d == <<"UnstakeRequested", "UnstakePending">>
  <1>1. a \in Seq(Names) /\ b \in Seq(Names) /\ c \in Seq(Names)
    BY DEF Names
  <1>2. d \in Seq(Names \ Deciding)
    BY DEF Names, Deciding
  <1>3. c # <<>>
    OBVIOUS
  <1>4. decodeMember = ((Must(a) \o IfMore(b)) \o Must(c)) \o IfMore(d)
    BY Zenon DEF decodeMember
  <1> HIDE DEF a, b, c, d
  <1>5. Must(a) \o IfMore(b) \in Seq(Wants)
    BY <1>1, MustTyped, JoinedTyped
  <1>6. Covered((Must(a) \o IfMore(b)) \o Must(c))
    BY <1>1, <1>3, <1>5, MustCovered, CoveredJoined
  <1>7. Covered(IfMore(d))
    BY <1>2, IdleTyped, IdleCovered
  <1>8. (Must(a) \o IfMore(b)) \o Must(c) \in Seq(Wants)
    BY <1>6 DEF Covered
  <1> QED BY <1>4, <1>6, <1>7, <1>8, CoveredJoined

LEMMA ProposalCovered == Covered(DecodeProposal)
  <1> DEFINE a == <<"ID", "ProjectID", "Creator", "Name", "Description", "OptionCount",
                    "DurationHours", "CreatedAt", "State">>
             o == <<"Outcome">>
             b == <<"Tx", "StakeSnapshot", "MemberCountSnapshot", "Metadata", "IsPoll",
                    "ResultOptionID", "ExecutableAt">>
             c == <<"URL", "VoterCount", "CostPaid">>
             d == <<"JoinSeqSnapshot">>
  <1>1. /\ a \in Seq(Names) /\ b \in Seq(Names) /\ c \in Seq(Names)
        /\ d \in Seq(Names) /\ o \in Seq(Names)
    BY DEF Names
  <1>2. d # <<>>
    OBVIOUS
  <1>3. DecodeProposal
            = ((Must(a) \o Must(o)) \o Must(b)) \o (IfMore(c) \o Must(d))
    BY Zenon DEF DecodeProposal, DecodeProposalEnd, decodeProposalOutcome
  <1> HIDE DEF a, b, c, d, o
  <1>4. IfMore(c) \in Seq(Wants)
    BY <1>1, MustTyped
  <1>5. Covered(IfMore(c) \o Must(d))
    BY <1>1, <1>2, <1>4, MustCovered, CoveredJoined
  <1>6. Covered(Must(a) \o Must(o))
    <2>1. Must(a) \in Seq(Wants)
      BY <1>1, MustTyped
    <2> QED BY <1>1, <2>1, MustCovered, CoveredJoined
  <1>7. Covered((Must(a) \o Must(o)) \o Must(b))
    <2>1. Must(a) \o Must(o) \in Seq(Wants)
      BY <1>6 DEF Covered
    <2> QED BY <1>1, <1>6, <2>1, MustCovered, CoveredJoined
  <1>8. (Must(a) \o Must(o)) \o Must(b) \in Seq(Wants)
    BY <1>7 DEF Covered
  <1> QED BY <1>3, <1>5, <1>7, <1>8, CoveredJoined

LEMMA ConfigCovered == Covered(decodeProjectConfig)
  <1> DEFINE a == <<"VotingSystem", "ThresholdPercent", "QuorumPercent",
                    "ProposalDurationHours", "ExecutionDelayHours", "LeaveCooldownHours",
                    "ProposalCost", "StakeMinAmt">>
             b == <<"MembershipNFTContract", "MembershipNFTContractFunction",
                    "MembershipNFT">>
             c == <<"MembershipNftPayloadFormat", "ProposalsMembersOnly">>
             d == <<"WhitelistOnly">>
  <1>1. a \in Seq(Names) /\ b \in Seq(Names) /\ c \in Seq(Names)
    BY DEF Names
  <1>2. d \in Seq(Names \ Deciding)
    BY DEF Names, Deciding
  <1>3. decodeProjectConfig = ((Must(a) \o Must(b)) \o Must(c)) \o IfMore(d)
    BY Zenon DEF decodeProjectConfig
  <1> HIDE DEF a, b, c, d
  <1>4. Covered(Must(a) \o Must(b))
    <2>1. Must(a) \in Seq(Wants)
      BY <1>1, MustTyped
    <2> QED BY <1>1, <2>1, MustCovered, CoveredJoined
  <1>5. Covered((Must(a) \o Must(b)) \o Must(c))
    <2>1. Must(a) \o Must(b) \in Seq(Wants)
      BY <1>4 DEF Covered
    <2> QED BY <1>1, <1>4, <2>1, MustCovered, CoveredJoined
  <1>6. Covered(IfMore(d))
    BY <1>2, IdleTyped, IdleCovered
  <1>7. (Must(a) \o Must(b)) \o Must(c) \in Seq(Wants)
    BY <1>5 DEF Covered
  <1> QED BY <1>3, <1>5, <1>6, <1>7, CoveredJoined

LEMMA MetaCovered == Covered(DecodeProjectMeta)
  <1> DEFINE a == <<"Owner", "Name", "Description", "Paused", "Tx", "Metadata">>
  <1>1. a \in Seq(Names)
    BY DEF Names
  <1>2. <<"URL">> \in Seq(Names \ Deciding)
    BY DEF Names, Deciding
  <1>3. DecodeProjectMeta = Must(a) \o IfMore(<<"URL">>)
    BY Zenon DEF DecodeProjectMeta
  <1> HIDE DEF a
  <1>4. Covered(IfMore(<<"URL">>))
    BY <1>2, IdleTyped, IdleCovered
  <1>5. Must(a) \in Seq(Wants)
    BY <1>1, MustTyped
  <1> QED BY <1>1, <1>3, <1>4, <1>5, MustCovered, CoveredJoined

LEMMA DecoderCovered ==
    ASSUME NEW kind
    PROVE  Covered(Decoder(kind))
  <1>1. /\ <<"FundsAsset", "StakeTotal", "MemberCount">> \in Seq(Names)
        /\ <<"Text", "URL", "WeightTotal", "VoterCount">> \in Seq(Names)
        /\ <<"Choices", "Weight">> \in Seq(Names)
        /\ <<"Stake", "Timestamp">> \in Seq(Names)
        /\ <<"Number">> \in Seq(Names)
    BY DEF Names
  <1>2. /\ Covered(DecodeProjectFinance) /\ Covered(decodeProposalOption)
        /\ Covered(decodeVoteRecord) /\ Covered(loadStakeHistory)
        /\ Covered(Must(<<"Number">>))
    BY <1>1, MustCovered
    DEF DecodeProjectFinance, decodeProposalOption, decodeVoteRecord, loadStakeHistory
  <1> QED BY <1>2, MetaCovered, ConfigCovered, MemberCovered, ProposalCovered DEF Decoder

-----------------------------------------------------------------------------
(* Loading a record, step by step                                          *)

Got == [as : Names, is : Fields]
Loads == [record : RecordIds \cup {NoRecord}, left : Seq(Fields), todo : Seq(Wants),
          got : Seq(Got), defaults : SUBSET Names,
          verdict : {"none", "reading", "loaded", "refused"}]

\* The fields read, without the names they were read under.
Is(got) == [i \in DOMAIN got |-> got[i].is]

\* The reads t take the fields e of record r and those an older version lacks.
Readable(e, t, r, o) ==
    \E rest \in Seq(Fields) : Reads(e \o rest, t) /\ (r \notin o => rest = <<>>)

\* What is saved, f, can be read, up to where the older records, o, end.
SavedOK(f, o) ==
    /\ DOMAIN f \subseteq RecordIds
    /\ \A r \in DOMAIN f : f[r] \in Seq(Fields) /\ Readable(f[r], Decoder(r.kind), r, o)

\* Halfway through a record: what was read and what is left are the record, and
\* the reads that are left take the fields that are left.
ReadingOK(l, f, o) ==
    /\ Covered(l.todo)
    /\ l.defaults # {} => l.left = <<>>
    /\ l.defaults \cap Deciding = {} \/ Compulsory(l.todo)
    /\ Is(l.got) \o l.left = f[l.record]
    /\ l.left # <<>> \/ l.record \notin o => Readable(l.left, l.todo, l.record, o)

LoadOK(l, f, o) ==
    /\ l \in Loads
    /\ \A i \in DOMAIN l.got : l.got[i].as = l.got[i].is.field
    /\ l.verdict = "none" => l = NoLoad
    /\ l.verdict # "none" => l.record \in DOMAIN f
    /\ l.verdict = "reading" => ReadingOK(l, f, o)
    /\ l.verdict = "loaded" =>
         /\ l.defaults \cap Deciding = {}
         /\ l.record \notin o => Is(l.got) = f[l.record]
    /\ l.verdict = "refused" => l.record \in o

LEMMA ReadableNext ==
    ASSUME NEW e \in Seq(Fields), NEW t, NEW r, NEW o, Readable(e, t, r, o), e # <<>>
    PROVE  /\ t \in Seq(Wants) /\ t # <<>>
           /\ Head(e).field = Head(t).field
           /\ ~TooMany(Head(t).field, Head(e).count)
           /\ Readable(Tail(e), NextReads(Head(e), Head(t), Tail(t)), r, o)
  <1>1. PICK rest \in Seq(Fields) : Reads(e \o rest, t) /\ (r \notin o => rest = <<>>)
    BY DEF Readable
  <1>2. e \o rest # <<>>
    BY ConcatEqualIffEmpty
  <1>3. Head(e \o rest) = Head(e) /\ Tail(e \o rest) = Tail(e) \o rest
    BY HeadTailJoined
  <1>4. /\ t # <<>>
        /\ Head(e \o rest).field = Head(t).field
        /\ ~TooMany(Head(t).field, Head(e \o rest).count)
        /\ Reads(Tail(e \o rest), NextReads(Head(e \o rest), Head(t), Tail(t)))
    BY <1>1, <1>2, ReadsNext
  <1>5. t \in Seq(Wants)
    BY <1>1, ReadsTyped
  <1>6. Reads(Tail(e) \o rest, NextReads(Head(e), Head(t), Tail(t)))
    BY <1>3, <1>4
  <1>7. Readable(Tail(e), NextReads(Head(e), Head(t), Tail(t)), r, o)
    BY <1>1, <1>6 DEF Readable
  <1> QED BY <1>3, <1>4, <1>5, <1>7

LEMMA ReadableAtEnd ==
    ASSUME NEW t, NEW r, NEW o, r \notin o, Readable(<<>>, t, r, o)
    PROVE  t = <<>>
  <1>1. <<>> \in Seq(Fields)
    BY EmptySeq
  <1>2. <<>> \o <<>> = <<>>
    BY <1>1, ConcatEmptySeq
  <1>3. Reads(<<>>, t)
    BY <1>2 DEF Readable
  <1> QED BY <1>3, ReadsNext

LEMMA IsMore ==
    ASSUME NEW g \in Seq(Got), NEW x \in Got, NEW e \in Seq(Fields), e # <<>>,
           x.is = Head(e)
    PROVE  /\ Is(Append(g, x)) \o Tail(e) = Is(g) \o e
           /\ Append(g, x) \in Seq(Got)
           /\ \A i \in DOMAIN Append(g, x) :
                (i \in DOMAIN g /\ Append(g, x)[i] = g[i]) \/ Append(g, x)[i] = x
  <1>1. PICK n \in Nat : n = Len(g) /\ DOMAIN g = 1 .. n
    BY LenProperties
  <1>2. PICK h \in Seq(Got) :
              /\ h = Append(g, x) /\ Len(h) = n + 1 /\ DOMAIN h = 1 .. n + 1
              /\ \A i \in 1 .. n : h[i] = g[i]
              /\ h[n + 1] = x
    <2>1. /\ Append(g, x) \in Seq(Got) /\ Len(Append(g, x)) = n + 1
          /\ \A i \in 1 .. n : Append(g, x)[i] = g[i]
          /\ Append(g, x)[n + 1] = x
      BY <1>1, AppendProperties
    <2>2. DOMAIN Append(g, x) = 1 .. n + 1
      BY <2>1, LenProperties
    <2> QED BY <2>1, <2>2
  <1>3. ASSUME NEW s \in Seq(Got), NEW m \in Nat, Len(s) = m
        PROVE  /\ Is(s) \in Seq(Fields) /\ Len(Is(s)) = m
               /\ \A i \in 1 .. m : Is(s)[i] = s[i].is
    <2>1. DOMAIN s = 1 .. m
      BY <1>3, LenProperties
    <2>2. Is(s) = [i \in 1 .. m |-> s[i].is]
      BY <2>1 DEF Is
    <2>3. ASSUME NEW i \in 1 .. m
          PROVE  s[i].is \in Fields
      <3>1. s[i] \in Got
        BY <1>3, ElementOfSeq
      <3> QED BY <3>1 DEF Got
    <2>4. Is(s) \in [1 .. m -> Fields]
      BY <2>2, <2>3
    <2>5. ASSUME NEW u \in [1 .. m -> Fields]
          PROVE  u \in Seq(Fields) /\ Len(u) = m
      OBVIOUS
    <2> QED BY <2>2, <2>4, <2>5
  <1>4. PICK a \in Seq(Fields) : a = Is(g) /\ Len(a) = n /\ \A i \in 1 .. n : a[i] = g[i].is
    BY <1>1, <1>3
  <1>5. PICK b \in Seq(Fields) : /\ b = Is(h) /\ Len(b) = n + 1
                                 /\ \A i \in 1 .. n + 1 : b[i] = h[i].is
    <2>1. PICK m \in Nat : m = n + 1
      BY <1>1
    <2>2. /\ Is(h) \in Seq(Fields) /\ Len(Is(h)) = m
          /\ \A i \in 1 .. m : Is(h)[i] = h[i].is
      BY <1>2, <1>3, <2>1
    <2> QED BY <2>1, <2>2
  <1>6. PICK r \in Seq(Fields) : r = Tail(e) /\ Rest(r, e) /\ Head(e) = e[1]
    BY TailRests
  <1>7. Len(e) \in Nat \ {0} /\ Len(r) = Len(e) - 1
    BY <1>6, EmptySeq DEF Rest
  <1>8. PICK u \in Seq(Fields) : u = b \o r /\ Joins(u, b, r)
    BY ConcatJoins
  <1>9. PICK v \in Seq(Fields) : v = a \o e /\ Joins(v, a, e)
    BY ConcatJoins
  <1>10. Len(u) = n + Len(e) /\ Len(v) = n + Len(e)
    BY <1>4, <1>5, <1>7, <1>8, <1>9 DEF Joins
  <1>11. ASSUME NEW i \in 1 .. Len(u)
         PROVE  u[i] = v[i]
    <2>1. CASE i <= n
      <3>1. u[i] = b[i] /\ v[i] = a[i]
        BY <1>4, <1>5, <1>7, <1>8, <1>9, <1>10, <2>1 DEF Joins
      <3>2. i \in 1 .. n /\ i \in 1 .. n + 1
        BY <2>1
      <3> QED BY <1>2, <1>4, <1>5, <3>1, <3>2
    <2>2. CASE i = n + 1
      <3>1. u[i] = b[n + 1]
        BY <1>5, <1>7, <1>8, <1>10, <2>2 DEF Joins
      <3>2. b[n + 1] = x.is
        BY <1>2, <1>5
      <3>3. v[i] = e[i - n]
        <4>1. i \in 1 .. Len(a) + Len(e) /\ ~(i <= Len(a)) /\ i - Len(a) = i - n
          BY <1>4, <1>10, <2>2
        <4>2. v[i] = e[i - Len(a)]
          BY <1>9, <4>1 DEF Joins
        <4> QED BY <4>1, <4>2
      <3>4. i - n = 1
        BY <2>2
      <3> QED BY <1>6, <3>1, <3>2, <3>3, <3>4
    <2>3. CASE i > n + 1
      <3>1. PICK k \in 1 .. Len(r) : k = i - (n + 1)
        <4>1. i - (n + 1) \in 1 .. Len(r)
          BY <1>7, <1>10, <2>3
        <4> QED BY <4>1
      <3>2. u[i] = r[k]
        BY <1>5, <1>7, <1>8, <1>10, <2>3, <3>1 DEF Joins
      <3>3. v[i] = e[i - n]
        <4>1. i \in 1 .. Len(a) + Len(e) /\ ~(i <= Len(a)) /\ i - Len(a) = i - n
          BY <1>4, <1>7, <1>10, <2>3
        <4>2. v[i] = e[i - Len(a)]
          BY <1>9, <4>1 DEF Joins
        <4> QED BY <4>1, <4>2
      <3>4. i - n = k + 1
        BY <3>1
      <3>5. r[k] = e[k + 1]
        BY <1>6 DEF Rest
      <3>6. v[i] = e[k + 1]
        BY <3>3, <3>4
      <3> QED BY <3>2, <3>5, <3>6
    <2> QED BY <2>1, <2>2, <2>3, <1>10
  <1>12. u = v
    BY <1>10, <1>11, SeqEqual
  <1>13. ASSUME NEW i \in DOMAIN h
         PROVE  (i \in DOMAIN g /\ h[i] = g[i]) \/ h[i] = x
    BY <1>1, <1>2
  <1> QED BY <1>2, <1>4, <1>5, <1>6, <1>8, <1>9, <1>12, <1>13

LEMMA NoLoadOK ==
    ASSUME NEW f, NEW o
    PROVE  LoadOK(NoLoad, f, o)
  <1>1. <<>> \in Seq(Fields) /\ <<>> \in Seq(Wants) /\ <<>> \in Seq(Got)
    BY EmptySeq
  <1>2. NoLoad \in Loads
    BY <1>1 DEF NoLoad, Loads
  <1>3. NoLoad.got = <<>> /\ NoLoad.verdict = "none"
    BY DEF NoLoad
  <1>4. DOMAIN <<>> = {}
    OBVIOUS
  <1> QED BY <1>2, <1>3, <1>4 DEF LoadOK

LEMMA LoadStarts ==
    ASSUME NEW f, NEW o, SavedOK(f, o), NEW r \in DOMAIN f, NEW l,
           l = [NoLoad EXCEPT !.record = r, !.left = f[r],
                              !.todo = Decoder(r.kind), !.verdict = "reading"]
    PROVE  LoadOK(l, f, o)
  <1>1. /\ r \in RecordIds /\ f[r] \in Seq(Fields)
        /\ Readable(f[r], Decoder(r.kind), r, o)
    BY DEF SavedOK
  <1>2. Covered(Decoder(r.kind)) /\ Decoder(r.kind) \in Seq(Wants)
    BY DecoderCovered DEF Covered
  <1>3. /\ l.record = r /\ l.left = f[r] /\ l.todo = Decoder(r.kind)
        /\ l.got = <<>> /\ l.defaults = {} /\ l.verdict = "reading"
        /\ l = [record |-> r, left |-> f[r], todo |-> Decoder(r.kind), got |-> <<>>,
                defaults |-> {}, verdict |-> "reading"]
    BY DEF NoLoad
  <1>4. <<>> \in Seq(Got) /\ DOMAIN <<>> = {}
    BY EmptySeq
  <1>5. l \in Loads
    BY <1>1, <1>2, <1>3, <1>4 DEF Loads
  <1>6. Is(<<>>) \o f[r] = f[r]
    <2>1. Is(<<>>) = <<>>
      BY DEF Is
    <2> QED BY <1>1, <2>1, ConcatEmptySeq
  <1>7. ReadingOK(l, f, o)
    BY <1>1, <1>2, <1>3, <1>6 DEF ReadingOK
  <1> QED BY <1>3, <1>4, <1>5, <1>7 DEF LoadOK

LEMMA FieldRead ==
    ASSUME NEW l, NEW f, NEW o, LoadOK(l, f, o),
           l.verdict = "reading", l.todo # <<>>, l.left # <<>>, NEW m,
           m = IF TooMany(Head(l.todo).field, Head(l.left).count)
               THEN [l EXCEPT !.verdict = "refused"]
               ELSE [l EXCEPT !.left = Tail(@),
                              !.todo = Times(Head(l.left).count, Entry(Head(l.todo).field))
                                         \o Tail(@),
                              !.got = Append(@, [as |-> Head(l.todo).field,
                                                 is |-> Head(l.left)])]
    PROVE  LoadOK(m, f, o)
  <1>1. /\ l \in Loads /\ l.left \in Seq(Fields) /\ l.todo \in Seq(Wants)
        /\ l.got \in Seq(Got) /\ l.record \in DOMAIN f /\ l.defaults \in SUBSET Names
        /\ l.record \in RecordIds \cup {NoRecord}
    BY DEF LoadOK, Loads
  <1>2. ReadingOK(l, f, o)
    BY DEF LoadOK
  <1>3. PICK h \in Fields : h = Head(l.left) /\ Tail(l.left) \in Seq(Fields)
    BY <1>1, HeadTailProperties
  <1>4. PICK w \in Wants : w = Head(l.todo) /\ Tail(l.todo) \in Seq(Wants)
    BY <1>1, HeadTailProperties
  <1>5. PICK t : t = NextReads(h, w, Tail(l.todo))
    OBVIOUS
  <1>6. /\ h.field = w.field /\ ~TooMany(w.field, h.count)
        /\ Readable(Tail(l.left), t, l.record, o)
    <2>1. Readable(l.left, l.todo, l.record, o)
      BY <1>2 DEF ReadingOK
    <2> QED BY <1>1, <1>3, <1>4, <1>5, <2>1, ReadableNext
  <1>7. Covered(t) /\ t \in Seq(Wants)
    <2>1. Covered(Tail(l.todo))
      BY <1>2, CoveredTail DEF ReadingOK
    <2>2. Covered(t)
      BY <1>5, <2>1, NextCovered
    <2> QED BY <2>2 DEF Covered
  <1>8. PICK x \in Got : x = [as |-> w.field, is |-> h] /\ x.as = w.field /\ x.is = h
    <2>1. [as |-> w.field, is |-> h] \in Got
      BY DEF Got, Wants
    <2> QED BY <2>1
  <1>9. PICK g \in Seq(Got) :
              /\ g = Append(l.got, x)
              /\ Is(g) \o Tail(l.left) = Is(l.got) \o l.left
              /\ \A i \in DOMAIN g : (i \in DOMAIN l.got /\ g[i] = l.got[i]) \/ g[i] = x
    <2>1. /\ Append(l.got, x) \in Seq(Got)
          /\ Is(Append(l.got, x)) \o Tail(l.left) = Is(l.got) \o l.left
          /\ \A i \in DOMAIN Append(l.got, x) :
               (i \in DOMAIN l.got /\ Append(l.got, x)[i] = l.got[i])
                 \/ Append(l.got, x)[i] = x
      BY <1>1, <1>3, <1>8, IsMore
    <2> QED BY <2>1
  <1>10. l.defaults = {}
    BY <1>2 DEF ReadingOK
  <1>11. /\ m = [l EXCEPT !.left = Tail(l.left), !.todo = t, !.got = g]
    BY <1>3, <1>4, <1>5, <1>6, <1>8, <1>9 DEF NextReads
  <1>12. /\ m.left = Tail(l.left) /\ m.todo = t /\ m.got = g /\ m.record = l.record
         /\ m.defaults = {} /\ m.verdict = "reading"
         /\ m \in Loads
    BY <1>1, <1>3, <1>7, <1>10, <1>11 DEF Loads
  <1>13. \A i \in DOMAIN g : g[i].as = g[i].is.field
    <2>1. \A i \in DOMAIN l.got : l.got[i].as = l.got[i].is.field
      BY DEF LoadOK
    <2> QED BY <1>6, <1>8, <1>9, <2>1
  <1>14. Is(g) \o Tail(l.left) = f[l.record]
    BY <1>2, <1>9 DEF ReadingOK
  <1>15. ReadingOK(m, f, o)
    BY <1>6, <1>7, <1>12, <1>14 DEF ReadingOK
  <1> QED BY <1>1, <1>12, <1>13, <1>15 DEF LoadOK

LEMMA PastEndRead ==
    ASSUME NEW l, NEW f, NEW o, LoadOK(l, f, o),
           l.verdict = "reading", l.todo # <<>>, l.left = <<>>, NEW m,
           m = IF Head(l.todo).ifMore
               THEN [l EXCEPT !.todo = Tail(@), !.defaults = @ \cup {Head(l.todo).field}]
               ELSE [l EXCEPT !.verdict = "refused"]
    PROVE  LoadOK(m, f, o)
  <1>1. /\ l \in Loads /\ l.left \in Seq(Fields) /\ l.todo \in Seq(Wants)
        /\ l.got \in Seq(Got) /\ l.record \in DOMAIN f /\ l.defaults \in SUBSET Names
        /\ l.record \in RecordIds \cup {NoRecord}
        /\ \A i \in DOMAIN l.got : l.got[i].as = l.got[i].is.field
    BY DEF LoadOK, Loads
  <1>2. ReadingOK(l, f, o)
    BY DEF LoadOK
  <1>3. l.record \in o
    <2>1. ASSUME l.record \notin o
          PROVE  FALSE
      <3>1. Readable(<<>>, l.todo, l.record, o)
        BY <1>2, <2>1 DEF ReadingOK
      <3> QED BY <2>1, <3>1, ReadableAtEnd
    <2> QED BY <2>1
  <1>4. PICK w \in Wants : w = Head(l.todo) /\ Tail(l.todo) \in Seq(Wants)
    BY <1>1, HeadTailProperties
  <1>5. CASE ~w.ifMore
    <2>1. m = [l EXCEPT !.verdict = "refused"]
      BY <1>4, <1>5
    <2>2. /\ m \in Loads /\ m.verdict = "refused" /\ m.got = l.got /\ m.record = l.record
      BY <1>1, <2>1 DEF Loads
    <2> QED BY <1>1, <1>3, <2>2 DEF LoadOK
  <1>6. CASE w.ifMore
    <2>1. m = [l EXCEPT !.todo = Tail(l.todo), !.defaults = l.defaults \cup {w.field}]
      BY <1>4, <1>6
    <2>2. /\ m \in Loads /\ m.verdict = "reading" /\ m.got = l.got /\ m.record = l.record
          /\ m.left = <<>> /\ m.todo = Tail(l.todo)
          /\ m.defaults = l.defaults \cup {w.field}
      <3>1. w.field \in Names
        BY DEF Wants
      <3>2. PICK d \in SUBSET Names : d = l.defaults \cup {w.field}
        BY <1>1, <3>1
      <3>3. PICK t \in Seq(Wants) : t = Tail(l.todo)
        BY <1>4
      <3>4. m = [l EXCEPT !.todo = t, !.defaults = d]
        BY <2>1, <3>2, <3>3
      <3> QED BY <1>1, <3>2, <3>3, <3>4 DEF Loads
    <2>3. Covered(Tail(l.todo))
      BY <1>2, CoveredTail DEF ReadingOK
    <2>4. Compulsory(l.todo) => Compulsory(Tail(l.todo))
      BY <1>1, <1>4, <1>6, CompulsoryTail
    <2>5. w.field \in Deciding => Compulsory(l.todo)
      <3>1. /\ Len(l.todo) \in Nat \ {0} /\ w = l.todo[1]
        BY <1>1, <1>4, TailRests, EmptySeq
      <3>2. 1 \in 1 .. Len(l.todo)
        BY <3>1
      <3>3. \A i \in 1 .. Len(l.todo) :
              l.todo[i].field \in Deciding => \E j \in i .. Len(l.todo) : ~l.todo[j].ifMore
        BY <1>2 DEF ReadingOK, Covered
      <3> QED BY <3>1, <3>2, <3>3 DEF Compulsory
    <2>6. m.defaults \cap Deciding = {} \/ Compulsory(m.todo)
      <3>1. l.defaults \cap Deciding = {} \/ Compulsory(l.todo)
        BY <1>2 DEF ReadingOK
      <3> QED BY <2>2, <2>4, <2>5, <3>1
    <2>7. Is(m.got) \o m.left = f[m.record]
      BY <1>2, <2>2 DEF ReadingOK
    <2>8. ReadingOK(m, f, o)
      BY <1>3, <2>2, <2>3, <2>6, <2>7 DEF ReadingOK
    <2> QED BY <1>1, <2>2, <2>8 DEF LoadOK
  <1> QED BY <1>5, <1>6

LEMMA LoadEnds ==
    ASSUME NEW l, NEW f, NEW o, LoadOK(l, f, o), l.verdict = "reading", l.todo = <<>>,
           NEW m, m = [l EXCEPT !.verdict = "loaded"]
    PROVE  LoadOK(m, f, o)
  <1>1. /\ l \in Loads /\ l.left \in Seq(Fields) /\ l.got \in Seq(Got)
        /\ l.record \in DOMAIN f
        /\ \A i \in DOMAIN l.got : l.got[i].as = l.got[i].is.field
    BY DEF LoadOK, Loads
  <1>2. ReadingOK(l, f, o)
    BY DEF LoadOK
  <1>3. /\ m \in Loads /\ m.verdict = "loaded" /\ m.got = l.got /\ m.record = l.record
        /\ m.defaults = l.defaults
    BY <1>1 DEF Loads
  <1>4. l.defaults \cap Deciding = {}
    <2>1. ~Compulsory(<<>>)
      <3>1. Len(<<>>) = 0
        BY EmptySeq
      <3> QED BY <3>1 DEF Compulsory
    <2> QED BY <1>2, <2>1 DEF ReadingOK
  <1>5. l.left = <<>>
    <2>1. ASSUME l.left # <<>>
          PROVE  FALSE
      <3>1. Readable(l.left, l.todo, l.record, o)
        BY <1>2, <2>1 DEF ReadingOK
      <3> QED BY <1>1, <2>1, <3>1, ReadableNext
    <2> QED BY <2>1
  <1>6. Is(l.got) = f[l.record]
    <2>1. Is(l.got) \in Seq(Fields)
      <3>1. PICK n \in Nat : DOMAIN l.got = 1 .. n /\ n = Len(l.got)
        BY <1>1, LenProperties
      <3>2. ASSUME NEW i \in 1 .. n
            PROVE  l.got[i].is \in Fields
        <4>1. l.got[i] \in Got
          BY <1>1, <3>1, ElementOfSeq
        <4> QED BY <4>1 DEF Got
      <3>3. Is(l.got) = [i \in 1 .. n |-> l.got[i].is]
        BY <3>1 DEF Is
      <3>4. Is(l.got) \in [1 .. n -> Fields]
        BY <3>2, <3>3
      <3>5. ASSUME NEW u \in [1 .. n -> Fields]
            PROVE  u \in Seq(Fields)
        OBVIOUS
      <3> QED BY <3>4, <3>5
    <2>2. Is(l.got) \o <<>> = f[l.record]
      BY <1>2, <1>5 DEF ReadingOK
    <2> QED BY <2>1, <2>2, ConcatEmptySeq
  <1> QED BY <1>1, <1>3, <1>4, <1>6 DEF LoadOK

-----------------------------------------------------------------------------
(* Every state of the store                                                *)

StorageInv ==
    /\ ApartInv
    /\ \E l, f, o : /\ l = load /\ f = saved /\ o = older
                    /\ SavedOK(f, o) /\ LoadOK(l, f, o)

LEMMA SavedLater ==
    ASSUME NEW f, NEW o, SavedOK(f, o), NEW r \in RecordIds, NEW s \in Shapes, Parsed(s)
    PROVE  SavedOK(Put(f, r, Encoded(r.kind, s)), o \ {r})
  <1>1. PICK e : e = Encoded(r.kind, s)
    OBVIOUS
  <1>2. Reads(e, Decoder(r.kind)) /\ e \in Seq(Fields) /\ <<>> \in Seq(Fields)
    BY <1>1, EncodedRead, ReadsTyped, EmptySeq
  <1>3. e \o <<>> = e
    BY <1>2, ConcatEmptySeq
  <1>4. Readable(e, Decoder(r.kind), r, o \ {r})
    BY <1>2, <1>3 DEF Readable
  <1>5. PICK g : g = Put(f, r, e)
    OBVIOUS
  <1>6. /\ DOMAIN g = DOMAIN f \cup {r} /\ g[r] = e
        /\ \A q \in DOMAIN f \ {r} : g[q] = f[q]
    BY <1>5 DEF Put
  <1>7. ASSUME NEW q \in DOMAIN f, q # r
        PROVE  g[q] \in Seq(Fields) /\ Readable(g[q], Decoder(q.kind), q, o \ {r})
    <2>1. f[q] \in Seq(Fields) /\ Readable(f[q], Decoder(q.kind), q, o)
      BY DEF SavedOK
    <2>2. q \in o <=> q \in o \ {r}
      BY <1>7
    <2>3. Readable(f[q], Decoder(q.kind), q, o \ {r})
      BY <2>1, <2>2 DEF Readable
    <2> QED BY <1>6, <1>7, <2>1, <2>3
  <1>8. SavedOK(g, o \ {r})
    BY <1>2, <1>4, <1>6, <1>7 DEF SavedOK
  <1> QED BY <1>1, <1>5, <1>8

LEMMA DeletedLater ==
    ASSUME NEW f, NEW o, SavedOK(f, o), NEW r
    PROVE  SavedOK(Drop(f, r), o \ {r})
  <1>1. PICK g : g = Drop(f, r)
    OBVIOUS
  <1>2. DOMAIN g = DOMAIN f \ {r} /\ \A q \in DOMAIN f \ {r} : g[q] = f[q]
    BY <1>1, DropAt
  <1>3. ASSUME NEW q \in DOMAIN g
        PROVE  g[q] \in Seq(Fields) /\ Readable(g[q], Decoder(q.kind), q, o \ {r})
    <2>1. f[q] \in Seq(Fields) /\ Readable(f[q], Decoder(q.kind), q, o)
      BY <1>2 DEF SavedOK
    <2>2. q \in o <=> q \in o \ {r}
      BY <1>2
    <2>3. Readable(f[q], Decoder(q.kind), q, o \ {r})
      BY <2>1, <2>2 DEF Readable
    <2> QED BY <1>2, <2>1, <2>3
  <1>4. SavedOK(g, o \ {r})
    BY <1>2, <1>3 DEF SavedOK
  <1> QED BY <1>1, <1>4

LEMMA StorageStarts == StorageInit => StorageInv
  <1> SUFFICES ASSUME StorageInit PROVE StorageInv
    OBVIOUS
  <1>1. ApartInv
    BY ApartInit
  <1>2. load = NoLoad
    BY DEF StorageInit
  <1>3. PICK f, o : f = saved /\ o = older
    OBVIOUS
  <1>4. SavedOK(f, o)
    <2>1. CASE saved = <<>>
      <3>1. DOMAIN f = {}
        BY <1>3, <2>1
      <3> QED BY <3>1 DEF SavedOK
    <2>2. ASSUME NEW r \in RecordIds, NEW s \in Shapes, Parsed(s),
                 NEW k \in 1 .. Len(Encoded(r.kind, s)) - 1,
                 saved = Put(<<>>, r, SubSeq(Encoded(r.kind, s), 1, k)), older = {r}
          PROVE  SavedOK(f, o)
      <3>1. PICK e \in Seq(Fields) : e = Encoded(r.kind, s) /\ Reads(e, Decoder(r.kind))
        BY <2>2, EncodedRead, ReadsTyped
      <3>2. Len(e) \in Nat /\ k \in 1 .. Len(e) - 1
        BY <3>1, LenProperties
      <3>3. \A i \in 1 .. k : e[i] \in Fields
        BY <3>2, ElementOfSeq
      <3>4. \A i \in k + 1 .. Len(e) : e[i] \in Fields
        BY <3>2, ElementOfSeq
      <3>5. PICK a \in Seq(Fields) : a = SubSeq(e, 1, k)
        <4>1. SubSeq(e, 1, k) \in Seq(Fields)
          BY <3>2, <3>3, SubSeqProperties
        <4> QED BY <4>1
      <3>6. PICK b \in Seq(Fields) : b = SubSeq(e, k + 1, Len(e))
        <4>1. k + 1 \in Int /\ Len(e) \in Int
          BY <3>2
        <4>2. SubSeq(e, k + 1, Len(e)) \in Seq(Fields)
          BY <3>4, <4>1, SubSeqProperties
        <4> QED BY <4>2
      <3>7. a \o b = e
        <4>1. k \in 1 - 1 .. Len(e) /\ Len(e) \in k .. Len(e) /\ 1 \in 1 .. Len(e) + 1
          BY <3>2
        <4>2. SubSeq(e, 1, k) \o SubSeq(e, k + 1, Len(e)) = SubSeq(e, 1, Len(e))
          BY <4>1, ConcatAdjacentSubSeq
        <4> QED BY <3>5, <3>6, <4>2, SubSeqFull
      <3>8. Readable(a, Decoder(r.kind), r, o)
        BY <1>3, <2>2, <3>1, <3>7 DEF Readable
      <3>9. DOMAIN f = {r} /\ f[r] = a
        BY <1>3, <2>2, <3>1, <3>5 DEF Put
      <3> QED BY <3>8, <3>9 DEF SavedOK
    <2> QED BY <2>1, <2>2 DEF StorageInit
  <1>5. LoadOK(NoLoad, f, o)
    BY NoLoadOK
  <1> QED BY <1>1, <1>2, <1>3, <1>4, <1>5 DEF StorageInv

LEMMA StorageSteps == StorageInv /\ [StorageNext]_storageVars => StorageInv'
  <1> SUFFICES ASSUME StorageInv, [StorageNext]_storageVars PROVE StorageInv'
    OBVIOUS
  <1>1. ApartInv /\ ApartInv'
    BY ApartStep DEF StorageInv
  <1>2. PICK l, f, o : /\ l = load /\ f = saved /\ o = older
                       /\ SavedOK(f, o) /\ LoadOK(l, f, o)
    BY DEF StorageInv
  <1>3. ASSUME NEW m, NEW g, NEW p, m = load', g = saved', p = older',
               SavedOK(g, p), LoadOK(m, g, p)
        PROVE  StorageInv'
    BY <1>1, <1>3 DEF StorageInv
  <1>4. ASSUME NEW r \in RecordIds, NEW s \in Shapes, Save(r, s)
        PROVE  StorageInv'
    <2>1. l = NoLoad
      BY <1>2, <1>4 DEF Save, NotLoading, LoadOK
    <2>2. SavedOK(Put(f, r, Encoded(r.kind, s)), o \ {r})
      BY <1>2, <1>4, SavedLater DEF Save
    <2>3. LoadOK(NoLoad, Put(f, r, Encoded(r.kind, s)), o \ {r})
      BY NoLoadOK
    <2>4. /\ NoLoad = load' /\ Put(f, r, Encoded(r.kind, s)) = saved'
          /\ o \ {r} = older'
      BY <1>2, <1>4, <2>1 DEF Save
    <2> QED BY <1>3, <2>2, <2>3, <2>4
  <1>5. ASSUME NEW r \in RecordIds, Delete(r)
        PROVE  StorageInv'
    <2>1. l = NoLoad
      BY <1>2, <1>5 DEF Delete, NotLoading, LoadOK
    <2>2. SavedOK(Drop(f, r), o \ {r})
      BY <1>2, DeletedLater
    <2>3. LoadOK(NoLoad, Drop(f, r), o \ {r})
      BY NoLoadOK
    <2>4. NoLoad = load' /\ Drop(f, r) = saved' /\ o \ {r} = older'
      BY <1>2, <1>5, <2>1 DEF Delete
    <2> QED BY <1>3, <2>2, <2>3, <2>4
  <1>6. ASSUME UNCHANGED <<saved, older>>, NEW m, m = load', LoadOK(m, f, o)
        PROVE  StorageInv'
    <2>1. f = saved' /\ o = older'
      BY <1>2, <1>6
    <2> QED BY <1>2, <1>3, <1>6, <2>1
  <1>7. ASSUME NEW r \in RecordIds, Load(r)
        PROVE  StorageInv'
    <2>1. r \in DOMAIN f /\ store[KeyOf(r)] = f[r]
      <3>1. PICK q \in DOMAIN saved : KeyOf(r) = KeyOf(q) /\ store[KeyOf(q)] = saved[q]
        BY <1>1, <1>7 DEF Load, ApartInv, RecordsStayApart
      <3>2. q = r
        BY <1>1, <3>1, KeysDiffer DEF ApartInv
      <3> QED BY <1>2, <3>1, <3>2
    <2>2. PICK m : m = [NoLoad EXCEPT !.record = r, !.left = f[r],
                                      !.todo = Decoder(r.kind), !.verdict = "reading"]
      OBVIOUS
    <2>3. m = load' /\ UNCHANGED <<saved, older>>
      BY <1>7, <2>1, <2>2 DEF Load
    <2>4. LoadOK(m, f, o)
      BY <1>2, <2>1, <2>2, LoadStarts
    <2> QED BY <1>6, <2>3, <2>4
  <1>8. ASSUME ReadField
        PROVE  StorageInv'
    <2>1. PICK m : m = load'
      OBVIOUS
    <2>2. LoadOK(m, f, o)
      <3>1. l.verdict = "reading" /\ l.todo # <<>> /\ l.left # <<>>
        BY <1>2, <1>8 DEF ReadField, Reading
      <3>2. m = IF TooMany(Head(l.todo).field, Head(l.left).count)
                THEN [l EXCEPT !.verdict = "refused"]
                ELSE [l EXCEPT !.left = Tail(@),
                               !.todo = Times(Head(l.left).count, Entry(Head(l.todo).field))
                                          \o Tail(@),
                               !.got = Append(@, [as |-> Head(l.todo).field,
                                                  is |-> Head(l.left)])]
        BY <1>2, <1>8, <2>1 DEF ReadField
      <3> QED BY <1>2, <3>1, <3>2, FieldRead
    <2> QED BY <1>6, <1>8, <2>1, <2>2 DEF ReadField
  <1>9. ASSUME ReadPastEnd
        PROVE  StorageInv'
    <2>1. PICK m : m = load'
      OBVIOUS
    <2>2. LoadOK(m, f, o)
      <3>1. l.verdict = "reading" /\ l.todo # <<>> /\ l.left = <<>>
        BY <1>2, <1>9 DEF ReadPastEnd, Reading
      <3>2. m = IF Head(l.todo).ifMore
                THEN [l EXCEPT !.todo = Tail(@),
                               !.defaults = @ \cup {Head(l.todo).field}]
                ELSE [l EXCEPT !.verdict = "refused"]
        BY <1>2, <1>9, <2>1 DEF ReadPastEnd
      <3> QED BY <1>2, <3>1, <3>2, PastEndRead
    <2> QED BY <1>6, <1>9, <2>1, <2>2 DEF ReadPastEnd
  <1>10. ASSUME Decoded
         PROVE  StorageInv'
    <2>1. PICK m : m = load'
      OBVIOUS
    <2>2. LoadOK(m, f, o)
      <3>1. l.verdict = "reading" /\ l.todo = <<>> /\ m = [l EXCEPT !.verdict = "loaded"]
        BY <1>2, <1>10, <2>1 DEF Decoded
      <3> QED BY <1>2, <3>1, LoadEnds
    <2> QED BY <1>6, <1>10, <2>1, <2>2 DEF Decoded
  <1>11. ASSUME Return
         PROVE  StorageInv'
    <2>1. NoLoad = load' /\ UNCHANGED <<saved, older>>
      BY <1>11 DEF Return
    <2> QED BY <1>6, <2>1, NoLoadOK
  <1>12. ASSUME UNCHANGED storageVars
         PROVE  StorageInv'
    <2>1. l = load' /\ UNCHANGED <<saved, older>>
      BY <1>2, <1>12 DEF storageVars
    <2> QED BY <1>2, <1>6, <2>1
  <1> QED BY <1>4, <1>5, <1>7, <1>8, <1>9, <1>10, <1>11, <1>12 DEF StorageNext

\* A record saved by this version of the contract is never refused when it is
\* loaded, whatever its lists within the limits of the payload parsers, and
\* every field of it is read.
THEOREM SavedLoads == StorageSpec => []SavedCanBeLoaded
  <1>1. StorageInv => SavedCanBeLoaded
    <2> SUFFICES ASSUME StorageInv, load.record \in DOMAIN saved \ older
                 PROVE  /\ load.verdict # "refused"
                        /\ load.verdict = "loaded" =>
                             [i \in DOMAIN load.got |-> load.got[i].is] = saved[load.record]
      BY DEF SavedCanBeLoaded
    <2>1. PICK l, f, o : /\ l = load /\ f = saved /\ o = older
                         /\ SavedOK(f, o) /\ LoadOK(l, f, o)
      BY DEF StorageInv
    <2>2. l.verdict # "refused"
      BY <2>1 DEF LoadOK
    <2>3. l.verdict = "loaded" => Is(l.got) = f[l.record]
      BY <2>1 DEF LoadOK
    <2> QED BY <2>1, <2>2, <2>3 DEF Is
  <1> QED BY <1>1, StorageStarts, StorageSteps, PTL DEF StorageSpec

\* No decoder takes a field for another one, not even in a record an older
\* version saved, wherever that record ends.
THEOREM MeaningsKept == StorageSpec => []FieldsKeepTheirMeaning
  <1>1. StorageInv => FieldsKeepTheirMeaning
    <2> SUFFICES ASSUME StorageInv PROVE FieldsKeepTheirMeaning
      OBVIOUS
    <2>1. PICK l, f, o : l = load /\ LoadOK(l, f, o)
      BY DEF StorageInv
    <2> QED BY <2>1 DEF LoadOK, FieldsKeepTheirMeaning
  <1> QED BY <1>1, StorageStarts, StorageSteps, PTL DEF StorageSpec

\* A record that is loaded was long enough for every field a rule depends on:
\* the decoders that tolerate a short record refuse it at a later field.
THEOREM NoDefaultRead == StorageSpec => []RulesReadNoDefault
  <1>1. StorageInv => RulesReadNoDefault
    <2> SUFFICES ASSUME StorageInv PROVE RulesReadNoDefault
      OBVIOUS
    <2>1. PICK l, f, o : l = load /\ LoadOK(l, f, o)
      BY DEF StorageInv
    <2> QED BY <2>1 DEF LoadOK, RulesReadNoDefault
  <1> QED BY <1>1, StorageStarts, StorageSteps, PTL DEF StorageSpec
=============================================================================
