------------------------------ MODULE Storage ------------------------------
(***************************************************************************)
(* How the contract keeps its records in the key-value store of the host:  *)
(* the keys, what the encoders write and what the decoders make of it.     *)
(*                                                                         *)
(* The encoders and the decoders are two lists of fields, maintained by    *)
(* hand in two places of codec.go; so they are here.  What is written is a *)
(* sequence of fields without names: a decoder reads each under the name   *)
(* it expects next.  Some decoders take a field only "if more follows", so *)
(* that a record stored before that field existed is still read.           *)
(*                                                                         *)
(* The store may already hold a record of an older version of the          *)
(* contract: one that ends after any of today's fields.                    *)
(***************************************************************************)
EXTENDS Integers, Sequences, FiniteSets

CONSTANTS
    RecordIds,           \* the records used: [kind, id, n, name]
    Shapes,              \* list lengths of a record, as decoded from a payload
    MaxPayoutReceivers,
    MaxICCCalls,
    MaxProposalOptions,
    MaxRecords           \* bound: records stored at once

Kinds == {"meta", "config", "finance", "member", "lock", "whitelist", "treasury",
          "proposal", "option", "vote", "history"}
\* The kinds kept per address, or per asset, and the kinds kept per number.
NamedKinds    == {"member", "lock", "whitelist", "treasury", "vote", "history"}
NumberedKinds == {"option", "history"}

\* Numbers of 32 and of 64 bits.
IsU32(x) == x \in Nat /\ x \div 65536 < 65536
IsU64(x) == x \in Nat /\ IsU32((x \div 65536) \div 65536)

ASSUME StorageConstants ==
    /\ \A r \in RecordIds :
          /\ r \in [kind : Kinds, id : Nat, n : Nat, name : Seq(0 .. 255)]
          /\ IsU64(r.id)
          /\ r.kind \notin NamedKinds => r.name = <<>>
          /\ r.kind \notin NumberedKinds => r.n = 0
          /\ r.kind = "option" => IsU32(r.n)
          /\ r.kind = "history" => IsU64(r.n)
    /\ Shapes \subseteq [nft : {0, 1}, outcome : {0, 1}, meta : Nat, payouts : Nat,
                         calls : Nat, assets : Nat, choices : Nat]
    /\ MaxPayoutReceivers \in Nat /\ MaxICCCalls \in Nat

VARIABLES
    store,    \* key -> fields
    saved,    \* history: record -> the fields last saved for it
    older,    \* history: the records an older version saved
    load      \* the decoder at work: record, fields left, reads left, fields got

storageVars == <<store, saved, older, load>>

-----------------------------------------------------------------------------
(* Keys                                                                    *)

\* Numbers in bytes, the lowest first.
U16(x) == <<x % 256, (x \div 256) % 256>>
U32(x) == U16(x) \o U16(x \div 65536)
U64(x) == U32(x) \o U32((x \div 65536) \div 65536)

\* Mutant: approvals get the prefix members have.
PrefixShared(kind) ==
    CASE kind = "meta" -> 1 [] kind = "config" -> 2 [] kind = "finance" -> 3
      [] kind = "member" -> 4 [] kind = "lock" -> 5 [] kind = "whitelist" -> 4
      [] kind = "treasury" -> 7 [] kind = "proposal" -> 16 [] kind = "option" -> 17
      [] kind = "vote" -> 32 [] kind = "history" -> 34
\* The first byte of a key.
Prefix(kind) ==
    CASE kind = "meta" -> 1 [] kind = "config" -> 2 [] kind = "finance" -> 3
      [] kind = "member" -> 4 [] kind = "lock" -> 5 [] kind = "whitelist" -> 6
      [] kind = "treasury" -> 7 [] kind = "proposal" -> 16 [] kind = "option" -> 17
      [] kind = "vote" -> 32 [] kind = "history" -> 34

\* Fixed-width parts first; an address or an asset, of any length, comes last.
KeyOf(r) ==
    (<<Prefix(r.kind)>> \o U64(r.id))
        \o (CASE r.kind = "option"  -> U32(r.n)
              [] r.kind = "history" -> U64(r.n) \o r.name
              [] OTHER -> r.name)

-----------------------------------------------------------------------------
(* Encoders                                                                *)

Plain(names) == [i \in DOMAIN names |-> [field |-> names[i], count |-> 0]]
\* The entry, n times over.
Times(n, entry) ==
    [i \in 1 .. n * Len(entry) |-> entry[((i - 1) % Len(entry)) + 1]]
\* A count, or a presence flag, and as many entries.
Counted(name, n, entry) == <<[field |-> name, count |-> n]>> \o Times(n, entry)

encodeProjectConfig(s) ==
    Plain(<<"VotingSystem", "ThresholdPercent", "QuorumPercent",
            "ProposalDurationHours", "ExecutionDelayHours", "LeaveCooldownHours",
            "ProposalCost", "StakeMinAmt">>)
    \o Counted("MembershipNFTContract", s.nft, Plain(<<"Text">>))
    \o Counted("MembershipNFTContractFunction", s.nft, Plain(<<"Text">>))
    \o Counted("MembershipNFT", s.nft, Plain(<<"Text">>))
    \o Plain(<<"MembershipNftPayloadFormat", "ProposalsMembersOnly", "WhitelistOnly">>)

encodeMember ==
    Plain(<<"Address", "Stake", "JoinedAt", "LastActionAt", "ExitRequested",
            "Reputation", "StakeIncrement", "JoinSeq", "VoteLockUntil",
            "UnstakeRequested", "UnstakePending">>)

encodeProposalOption == Plain(<<"Text", "URL", "WeightTotal", "VoterCount">>)

encodeProposalOutcome(s) ==
    Counted("Outcome", s.outcome,
        Counted("Meta", s.meta, Plain(<<"MetaKey", "MetaValue">>))
        \o Counted("Payout", s.payouts, Plain(<<"PayoutAddress", "Amount", "Asset">>))
        \o Counted("ICC", s.calls,
               Plain(<<"ContractAddress", "Function", "Payload">>)
               \o Counted("ICCAssets", s.assets, Plain(<<"Asset", "Amount">>))))

EncodeProposal(s) ==
    Plain(<<"ID", "ProjectID", "Creator", "Name", "Description", "OptionCount",
            "DurationHours", "CreatedAt", "State">>)
    \o encodeProposalOutcome(s)
    \o Plain(<<"Tx", "StakeSnapshot", "MemberCountSnapshot", "Metadata", "IsPoll",
               "ResultOptionID", "ExecutableAt", "URL", "VoterCount", "CostPaid",
               "JoinSeqSnapshot">>)

EncodeProjectMeta ==
    Plain(<<"Owner", "Name", "Description", "Paused", "Tx", "Metadata", "URL">>)

EncodeProjectFinance == Plain(<<"FundsAsset", "StakeTotal", "MemberCount">>)

encodeVoteRecord(s) == Counted("Choices", s.choices, Plain(<<"Choice">>)) \o Plain(<<"Weight">>)

saveStakeHistory == Plain(<<"Stake", "Timestamp">>)

\* A lock counter, an approval or a balance: one decimal number.
Number == Plain(<<"Number">>)

Encoded(kind, s) ==
    CASE kind = "meta"     -> EncodeProjectMeta
      [] kind = "config"   -> encodeProjectConfig(s)
      [] kind = "finance"  -> EncodeProjectFinance
      [] kind = "member"   -> encodeMember
      [] kind = "proposal" -> EncodeProposal(s)
      [] kind = "option"   -> encodeProposalOption
      [] kind = "vote"     -> encodeVoteRecord(s)
      [] kind = "history"  -> saveStakeHistory
      [] OTHER             -> Number

-----------------------------------------------------------------------------
(* Decoders: what each reads, in order                                     *)

Must(names) == [i \in DOMAIN names |-> [field |-> names[i], ifMore |-> FALSE]]
IfMore(names) == [i \in DOMAIN names |-> [field |-> names[i], ifMore |-> TRUE]]

decodeProjectConfig ==
    Must(<<"VotingSystem", "ThresholdPercent", "QuorumPercent",
           "ProposalDurationHours", "ExecutionDelayHours", "LeaveCooldownHours",
           "ProposalCost", "StakeMinAmt">>)
    \o Must(<<"MembershipNFTContract", "MembershipNFTContractFunction", "MembershipNFT">>)
    \o Must(<<"MembershipNftPayloadFormat", "ProposalsMembersOnly">>)
    \o IfMore(<<"WhitelistOnly">>)

\* Mutant: a member record may end before the join sequence.
decodeMemberLenient ==
    Must(<<"Address", "Stake", "JoinedAt", "LastActionAt", "ExitRequested",
           "Reputation">>)
    \o IfMore(<<"StakeIncrement", "JoinSeq", "VoteLockUntil", "UnstakeRequested",
                "UnstakePending">>)
decodeMember ==
    Must(<<"Address", "Stake", "JoinedAt", "LastActionAt", "ExitRequested",
           "Reputation">>)
    \o IfMore(<<"StakeIncrement">>)
    \o Must(<<"JoinSeq", "VoteLockUntil">>)
    \o IfMore(<<"UnstakeRequested", "UnstakePending">>)

decodeProposalOption == Must(<<"Text", "URL", "WeightTotal", "VoterCount">>)

decodeProposalOutcome == Must(<<"Outcome">>)

\* Mutant: the cost is written and not read.
DecodeProposalTail == IfMore(<<"URL", "VoterCount">>) \o Must(<<"JoinSeqSnapshot">>)
\* The fields a proposal got after the first version, and the join snapshot.
DecodeProposalEnd ==
    IfMore(<<"URL", "VoterCount", "CostPaid">>) \o Must(<<"JoinSeqSnapshot">>)

DecodeProposal ==
    Must(<<"ID", "ProjectID", "Creator", "Name", "Description", "OptionCount",
           "DurationHours", "CreatedAt", "State">>)
    \o decodeProposalOutcome
    \o Must(<<"Tx", "StakeSnapshot", "MemberCountSnapshot", "Metadata", "IsPoll",
              "ResultOptionID", "ExecutableAt">>)
    \o DecodeProposalEnd

DecodeProjectMeta ==
    Must(<<"Owner", "Name", "Description", "Paused", "Tx", "Metadata">>)
    \o IfMore(<<"URL">>)

DecodeProjectFinance == Must(<<"FundsAsset", "StakeTotal", "MemberCount">>)

decodeVoteRecord == Must(<<"Choices", "Weight">>)

loadStakeHistory == Must(<<"Stake", "Timestamp">>)

Decoder(kind) ==
    CASE kind = "meta"     -> DecodeProjectMeta
      [] kind = "config"   -> decodeProjectConfig
      [] kind = "finance"  -> DecodeProjectFinance
      [] kind = "member"   -> decodeMember
      [] kind = "proposal" -> DecodeProposal
      [] kind = "option"   -> decodeProposalOption
      [] kind = "vote"     -> decodeVoteRecord
      [] kind = "history"  -> loadStakeHistory
      [] OTHER             -> Must(<<"Number">>)

\* What is read for each entry a count announces.
Entry(field) ==
    CASE field = "Outcome"   -> Must(<<"Meta", "Payout">>) \o IfMore(<<"ICC">>)
      [] field = "Meta"      -> Must(<<"MetaKey", "MetaValue">>)
      [] field = "Payout"    -> Must(<<"PayoutAddress", "Amount", "Asset">>)
      [] field = "ICC"       -> Must(<<"ContractAddress", "Function", "Payload", "ICCAssets">>)
      [] field = "ICCAssets" -> Must(<<"Asset", "Amount">>)
      [] field = "Choices"   -> Must(<<"Choice">>)
      [] field \in {"MembershipNFTContract", "MembershipNFTContractFunction",
                    "MembershipNFT"} -> Must(<<"Text">>)
      [] OTHER -> <<>>

\* Mutant: a list as long as its limit is refused.
TooManyAtLimit(field, n) ==
    \/ field = "Payout" /\ n >= MaxPayoutReceivers
    \/ field = "ICC" /\ n >= MaxICCCalls
\* A count the decoder refuses before it reads the entries.
TooMany(field, n) ==
    \/ field = "Payout" /\ n > MaxPayoutReceivers
    \/ field = "ICC" /\ n > MaxICCCalls

-----------------------------------------------------------------------------
(* Saving, deleting and loading                                            *)

\* The limits of the payload parsers: only such lists reach a record.
Parsed(s) ==
    /\ s.payouts <= MaxPayoutReceivers
    /\ s.calls <= MaxICCCalls
    /\ s.choices <= MaxProposalOptions
    /\ s.outcome = 1 <=> s.meta + s.payouts + s.calls > 0

\* The kinds of record whose key is deleted in the course of things.
Deletable == {"member", "lock", "whitelist", "history"}

Put(f, key, value) == [k \in DOMAIN f \cup {key} |-> IF k = key THEN value ELSE f[k]]
Drop(f, key) == [k \in DOMAIN f \ {key} |-> f[k]]

NotLoading == load.verdict = "none"
NoRecord == [kind |-> "none", id |-> 0, n |-> 0, name |-> <<>>]
NoLoad == [record |-> NoRecord, left |-> <<>>, todo |-> <<>>, got |-> <<>>,
           defaults |-> {}, verdict |-> "none"]

Save(r, s) ==
    /\ NotLoading
    /\ Parsed(s)
    /\ Cardinality(DOMAIN saved \cup {r}) <= MaxRecords
    /\ store' = Put(store, KeyOf(r), Encoded(r.kind, s))
    /\ saved' = Put(saved, r, Encoded(r.kind, s))
    /\ older' = older \ {r}
    /\ UNCHANGED load

Delete(r) ==
    /\ NotLoading
    /\ r \in DOMAIN saved
    /\ r.kind \in Deletable
    /\ store' = Drop(store, KeyOf(r))
    /\ saved' = Drop(saved, r)
    /\ older' = older \ {r}
    /\ UNCHANGED load

Load(r) ==
    /\ NotLoading
    /\ KeyOf(r) \in DOMAIN store
    /\ load' = [NoLoad EXCEPT !.record = r, !.left = store[KeyOf(r)],
                              !.todo = Decoder(r.kind), !.verdict = "reading"]
    /\ UNCHANGED <<store, saved, older>>

Reading == load.verdict = "reading" /\ load.todo # <<>>

\* The next field, under the name the decoder expects.
ReadField ==
    /\ Reading /\ load.left # <<>>
    /\ LET want == Head(load.todo)
           have == Head(load.left)
       IN load' = IF TooMany(want.field, have.count)
                  THEN [load EXCEPT !.verdict = "refused"]
                  ELSE [load EXCEPT !.left = Tail(@),
                            !.todo = Times(have.count, Entry(want.field)) \o Tail(@),
                            !.got = Append(@, [as |-> want.field, is |-> have])]
    /\ UNCHANGED <<store, saved, older>>

\* Nothing is left: the field keeps its zero value if it is one that may.
ReadPastEnd ==
    /\ Reading /\ load.left = <<>>
    /\ LET want == Head(load.todo)
       IN load' = IF want.ifMore
                  THEN [load EXCEPT !.todo = Tail(@), !.defaults = @ \cup {want.field}]
                  ELSE [load EXCEPT !.verdict = "refused"]
    /\ UNCHANGED <<store, saved, older>>

Decoded ==
    /\ load.verdict = "reading" /\ load.todo = <<>>
    /\ load' = [load EXCEPT !.verdict = "loaded"]
    /\ UNCHANGED <<store, saved, older>>

Return ==
    /\ load.verdict \in {"loaded", "refused"}
    /\ load' = NoLoad
    /\ UNCHANGED <<store, saved, older>>

StorageInit ==
    /\ load = NoLoad
    /\ \/ store = <<>> /\ saved = <<>> /\ older = {}
       \/ \E r \in RecordIds, s \in Shapes :
            /\ Parsed(s)
            /\ \E k \in 1 .. Len(Encoded(r.kind, s)) - 1 :
                 LET fields == SubSeq(Encoded(r.kind, s), 1, k)
                 IN store = Put(<<>>, KeyOf(r), fields) /\ saved = Put(<<>>, r, fields)
            /\ older = {r}

StorageNext ==
    \/ \E r \in RecordIds :
         \/ \E s \in Shapes : Save(r, s)
         \/ Delete(r)
         \/ Load(r)
    \/ ReadField \/ ReadPastEnd \/ Decoded \/ Return

StorageSpec == StorageInit /\ [][StorageNext]_storageVars

-----------------------------------------------------------------------------
(* Properties                                                              *)

\* Saving or deleting one record never touches another: under the key of every
\* record there is what was saved for it, and there is nothing else.
RecordsStayApart ==
    /\ DOMAIN store = {KeyOf(r) : r \in DOMAIN saved}
    /\ \A r \in DOMAIN saved : store[KeyOf(r)] = saved[r]

\* What a payload was allowed to ask for can be read back: a record saved by
\* this version is never refused, whatever its lists, and all of it is read.
SavedCanBeLoaded ==
    load.record \in DOMAIN saved \ older =>
        /\ load.verdict # "refused"
        /\ load.verdict = "loaded" =>
               [i \in DOMAIN load.got |-> load.got[i].is] = saved[load.record]

\* No field is ever read as another one, whichever version wrote the record.
FieldsKeepTheirMeaning ==
    \A i \in DOMAIN load.got : load.got[i].as = load.got[i].is.field

\* The fields that decide who may vote, with what and when stake may leave.
Deciding == {"Stake", "StakeIncrement", "JoinSeq", "VoteLockUntil", "VoterCount",
             "CostPaid", "StakeSnapshot", "MemberCountSnapshot", "JoinSeqSnapshot"}

\* A record too short to tell is refused: no version's record makes its member
\* a founder, frees a voter or opens a proposal to nobody by a zero value.
RulesReadNoDefault ==
    load.verdict = "loaded" => load.defaults \cap Deciding = {}
=============================================================================
