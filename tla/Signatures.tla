----------------------------- MODULE Signatures -----------------------------
(***************************************************************************)
(* What reprepro makes of what gpg says about a signature: of a .changes   *)
(* or .dsc file (signature.c), and of a Release file that is to fulfil the *)
(* VerifyRelease conditions of the update rules (signature_check.c).       *)
(*                                                                         *)
(* A fingerprint is a sequence, the id libgpgme has of a key the end of    *)
(* it.  A keyring is a sequence of keys, a key a sequence of subkeys with  *)
(* the primary one first: [fpr, revoked, expired, cansign].                *)
(***************************************************************************)
EXTENDS Integers, SequencesExt

KeyIdLength == 2

EndsIn(id, suffix) == IsSuffix(suffix, id)
KeyId(subkey) == SubSeq(subkey.fpr, Len(subkey.fpr) + 1 - KeyIdLength, Len(subkey.fpr))

-----------------------------------------------------------------------------
(* signature_readsignedchunk: a file is [dash, begin: how it starts, gpg:  *)
(* what gpg made of it, content: what is in the signed text (or in all of  *)
(* it), marker: whether there are the lines around the signed text, sigs:  *)
(* the signatures, each [fpr, status]].                                    *)

Status == {"ok", "keyexpired", "revoked", "sigexpired", "bad", "nopubkey", "general", "other"}
Mostly == {"keyexpired", "revoked", "sigexpired"}

State(status) ==
    CASE status = "ok" -> "valid" [] status \in Mostly -> "mostly"
      [] status = "bad" -> "bad" [] status = "nopubkey" -> "missing"

CheckSigs(sigs) ==
    LET all == {sigs[i].status : i \in DOMAIN sigs} IN
    [ok |-> all \cap {"general", "other"} = {},
     broken |-> "bad" \in all /\ all \cap (Mostly \cup {"ok"}) = {}]

(* check_primary_keys: gpg says nothing of the primary key of a subkey.    *)
Owners(keyring, fpr) == {k \in DOMAIN keyring : \E i \in DOMAIN keyring[k] : keyring[k][i].fpr = fpr}

CheckPrimaryKey(keyring, sig) ==
    IF sig.status = "nopubkey" THEN [keyid |-> sig.fpr, primary |-> sig.fpr, state |-> "missing"]
    ELSE LET first == keyring[CHOOSE k \in Owners(keyring, sig.fpr) : TRUE][1] IN
         [keyid |-> sig.fpr, primary |-> KeyId(first),
          state |-> IF State(sig.status) = "valid" /\ (first.revoked \/ first.expired)
                      THEN "mostly" ELSE State(sig.status)]

KeysKnown(keyring, sigs) ==
    \A i \in DOMAIN sigs : sigs[i].status # "nopubkey" => Owners(keyring, sigs[i].fpr) # {}

Refused == [ok |-> FALSE, signed |-> FALSE, signatures |-> <<>>, broken |-> FALSE]

ExtractSignedData(keyring, file) ==
    IF CheckSigs(file.sigs).ok /\ KeysKnown(keyring, file.sigs) /\ file.content = "one"
      THEN [ok |-> TRUE, signed |-> TRUE, broken |-> CheckSigs(file.sigs).broken,
            signatures |-> [i \in DOMAIN file.sigs |-> CheckPrimaryKey(keyring, file.sigs[i])]]
      ELSE Refused

(* A mutant: what gpg does not understand is taken as not signed. *)
ReadUnchecked(keyring, file) ==
    IF ~file.dash \/ file.gpg # "ok"
      THEN [Refused EXCEPT !.ok = file.content = "one"]
      ELSE ExtractSignedData(keyring, file)

(* What gpg does not understand is taken out of its lines without it, with *)
(* no signatures in it, but signed.                                        *)
ReadSignedChunk(keyring, file) ==
    IF ~file.dash
      THEN [Refused EXCEPT !.ok = file.content = "one"]
    ELSE IF file.gpg = "ok" THEN ExtractSignedData(keyring, file)
    ELSE IF file.gpg = "noplain" /\ ~CheckSigs(file.sigs).ok THEN Refused
    ELSE IF file.gpg \in {"nodata", "noplain"} /\ file.begin /\ file.marker /\ file.content # "empty"
      THEN [Refused EXCEPT !.ok = TRUE, !.signed = TRUE]
    ELSE Refused

ValidCount(signatures) == Len(SelectSeq(signatures, LAMBDA s : s.state = "valid"))

-----------------------------------------------------------------------------
(* VerifyRelease: a condition is a sequence of alternatives [id, bad: with *)
(* a "!", subkeys: with a "+"], the empty one is blindtrust.  What was     *)
(* added so far: the requirements, the keys loaded for them, whether one   *)
(* was refused.                                                            *)
NoRequirements == [asked |-> {}, list |-> {}, known |-> <<>>, failed |-> FALSE]

(* found_key: subkey 0 is any.                                             *)
Unusable(subkey) == subkey.revoked \/ subkey.expired \/ ~subkey.cansign

FoundKey(key, i, part) ==
    [ok |-> (part.bad \/ ~Unusable(key[i])) /\ (part.subkeys => i = 1),
     requested |-> [key |-> key, subkey |-> IF part.subkeys THEN 0 ELSE i, bad |-> part.bad]]

Named(key, id) == {i \in DOMAIN key : EndsIn(KeyId(key[i]), id)}
First(S) == CHOOSE i \in S : \A j \in S : i <= j
Latest(S) == CHOOSE i \in S : \A j \in S : i >= j

(* load_key: the keys known are looked through first, the one loaded last  *)
(* before the others.  gpg wants to find exactly one.                      *)
LoadKey(keyring, known, part) ==
    LET cached == {n \in DOMAIN known : Named(known[n], part.id) # {}}
        found == {k \in DOMAIN keyring : Named(keyring[k], part.id) # {}}
    IN  IF cached # {}
          THEN LET key == known[First(cached)] IN
               [known |-> known, found |-> FoundKey(key, First(Named(key, part.id)), part)]
        ELSE IF \E k \in found : found = {k}
          THEN LET key == keyring[CHOOSE k \in found : TRUE] IN
               [known |-> <<key>> \o known, found |-> FoundKey(key, Latest(Named(key, part.id)), part)]
        ELSE [known |-> known, found |-> [ok |-> FALSE]]

(* signature_requirement_add: a condition asked for before is not read     *)
(* again.                                                                  *)
RequirementAdd(keyring, s, condition) ==
    LET Load(a, part) ==
            LET loaded == LoadKey(keyring, a.known, part) IN
            IF a.failed THEN a
            ELSE IF loaded.found.ok
              THEN [a EXCEPT !.known = loaded.known, !.keys = @ \cup {loaded.found.requested}]
              ELSE [a EXCEPT !.known = loaded.known, !.failed = TRUE]
        all == FoldLeft(Load, [known |-> s.known, keys |-> {}, failed |-> FALSE], condition)
    IN  IF s.failed \/ condition \in s.asked \cup {<<>>} THEN s
        ELSE [asked |-> s.asked \cup {condition}, list |-> s.list \cup {all.keys},
              known |-> all.known, failed |-> all.failed]

(* key_good, key_good_enough: which subkey asked for a signature is by,    *)
(* whether it is accepted, with the --ignore given.                        *)
Concerned(req, sig) ==
    {i \in DOMAIN req.key : req.subkey \in {0, i} /\ EndsIn(sig.fpr, KeyId(req.key[i]))}

KeyExpired(req, sig) == req.key[First(Concerned(req, sig))].expired

KeyGood(req, sigs) ==
    \E n \in DOMAIN sigs :
        Concerned(req, sigs[n]) # {} /\ sigs[n].status = "ok" /\ ~KeyExpired(req, sigs[n])

Fault(sig, expired) ==
    CASE sig.status = "ok" -> IF expired THEN "expiredkey" ELSE "none"
      [] sig.status = "keyexpired" -> "expiredkey"
      [] sig.status = "revoked" -> "revokedkey"
      [] sig.status = "sigexpired" -> "expiredsignature"
      [] OTHER -> "never"

GoodEnough(req, sig, ignoring) ==
    /\ Concerned(req, sig) # {}
    /\ LET fault == Fault(sig, KeyExpired(req, sig)) IN
       fault = "none" \/ (req.bad /\ fault \in ignoring)

KeyGoodEnough(req, sigs, ignoring) ==
    \E n \in DOMAIN sigs :
        /\ GoodEnough(req, sigs[n], ignoring)
        /\ \A m \in 1..n - 1 : Concerned(req, sigs[m]) # {} => sigs[m].status # "other"

VerifySignature(list, sigs, ignoring) ==
    \A keys \in list :
        (\E req \in keys : KeyGood(req, sigs)) \/ \E req \in keys : KeyGoodEnough(req, sigs, ignoring)

(* signature_check_inline of an InRelease file; nothing is required where  *)
(* all rules say blindtrust.                                               *)
SignatureCheckInline(list, file, ignoring) ==
    /\ file.content = "one"
    /\ \/ file.gpg = "nodata" /\ ~file.dash /\ list = {}
       \/ file.gpg = "ok" /\ VerifySignature(list, file.sigs, ignoring)

-----------------------------------------------------------------------------

(* What a condition says: the alternative names a key, or with a "+" one   *)
(* and all its subkeys, and there is a signature by it that is good, or    *)
(* that has a fault the "!" and an --ignore forgive.                       *)
Trusts(keyring, part, sig, ignoring) ==
    \E k \in DOMAIN keyring : \E i, j \in DOMAIN keyring[k] :
        /\ EndsIn(KeyId(keyring[k][i]), part.id) /\ sig.fpr = keyring[k][j].fpr
        /\ IF part.subkeys THEN i = 1 ELSE i = j
        /\ LET fault == Fault(sig, keyring[k][j].expired) IN
           fault = "none" \/ (part.bad /\ fault \in ignoring)

(* An InRelease file is used only when each condition of each rule that    *)
(* wants it has such a signature, whichever rules were read before, and is *)
(* then refused only where an id is the end of several, or where gpg said  *)
(* what reprepro does not know.                                            *)
OneOnly(keyring, id) ==
    \E k \in DOMAIN keyring : \E i \in DOMAIN keyring[k] :
        \A l \in DOMAIN keyring : Named(keyring[l], id) = IF l = k THEN {i} ELSE {}

ReleaseTrusted(keyring, conditions, file, ignoring) ==
    LET Add(s, condition) == RequirementAdd(keyring, s, condition)
        added == FoldLeft(Add, NoRequirements, conditions)
        all == {conditions[n] : n \in DOMAIN conditions}
        trusted == \A c \in all \ {<<>>} : \E p \in DOMAIN c : \E n \in DOMAIN file.sigs :
                       Trusts(keyring, c[p], file.sigs[n], ignoring)
        used == SignatureCheckInline(added.list, file, ignoring)
    IN  ~added.failed =>
          /\ used => trusted
          /\ /\ trusted /\ file.gpg = "ok" /\ file.content = "one"
             /\ \A c \in all : \A p \in DOMAIN c : OneOnly(keyring, c[p].id)
             /\ \A n \in DOMAIN file.sigs : file.sigs[n].status # "other"
             => used

=============================================================================
