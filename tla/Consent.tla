------------------------------- MODULE Consent -------------------------------
(***************************************************************************)
(* Threshold reveal (threshold.go) and the files he-consent keeps it in:   *)
(* `seal` writes sealed.json and then one share file per holder into a     *)
(* directory, file by file; `reveal` reads sealed.json and some shares.    *)
(* Seals may overlap, follow one another in one directory, and crash.      *)
(*                                                                         *)
(* The field is the integers modulo a small prime; a ciphertext opens      *)
(* under the key it was made with and no other (AES-GCM).                  *)
(***************************************************************************)
EXTENDS Integers, FiniteSets, SequencesExt

CONSTANTS
    P,           \* the prime of the field (2^521 - 1)
    KeySpace,    \* the keys: a part of the field
    Randoms,     \* what the coefficients of a split are drawn from
    Seal,        \* runs of `he-consent seal`, each of an artifact of its own
    MaxShares,   \* bound on n
    NoFile,      \* a file that is not there
    Torn         \* a file that does not parse

Field == 0..(P - 1)

\* What sealed.json holds: the key stands for the ciphertext it opens.  The
\* coefficients are not in the file, but those of the seal that wrote it.
SealedReveal ==
    [seal : Seal, k : 2..MaxShares, n : 2..MaxShares, key : KeySpace, coeffs : Seq(Field)]

ASSUME ConsentAssumption ==
    /\ P \in Nat \ {0, 1}
    /\ KeySpace \subseteq Field
    /\ Randoms \subseteq Field
    /\ MaxShares \in 2..(P - 1)
    /\ NoFile \notin Seal
    /\ {NoFile, Torn} \cap (Field \cup SealedReveal) = {}

VARIABLES
    sealed,    \* sealed.json
    share,     \* share-<x>.json
    job,       \* per seal, the SealedReveal it is writing
    next,      \* per seal, the file it writes next (0: sealed.json, x: a share)
    disturbed, \* the seals that shared the directory with another for a while
    whole      \* the seal that wrote all the files there are last, undisturbed

consentVars == <<sealed, share, job, next, disturbed, whole>>

NoSeal == [seal |-> NoFile, k |-> 0, n |-> 0, key |-> 0, coeffs |-> <<>>]

-----------------------------------------------------------------------------
(* Shamir's scheme over the field. *)

\* Horner evaluation of the polynomial at x.
Polynomial(coeffs, x) ==
    LET k == Len(coeffs)
        y[i \in 0..(k - 1)] ==
            IF i = 0 THEN coeffs[k] ELSE (y[i - 1] * x + coeffs[k - i]) % P
    IN  y[k - 1]

ShamirSplit(coeffs, n) == [x \in 1..n |-> Polynomial(coeffs, x)]

ModInverse(d) == CHOOSE e \in Field : (d * e) % P = 1

\* The Lagrange coefficient of the share of j among those of xs, at 0.
Lagrange(xs, j) ==
    LET num == FoldSet(LAMBDA m, v : (-m * v) % P, 1, xs \ {j})
        den == FoldSet(LAMBDA m, v : ((j - m) * v) % P, 1, xs \ {j})
    IN  num * ModInverse(den)

SumUp(terms) == FoldFunction(LAMBDA t, sum : (t + sum) % P, 0, terms)

\* ShamirCombine on the shares of the holders xs.
ShamirCombine(xs, y) == SumUp([j \in xs |-> y[j] * Lagrange(xs, j)])

\* Mutant of Reveal: the number of shares is not compared with k.
RevealAnyCount(holders) ==
    { sealed.seal : x \in
        IF /\ sealed \notin {NoFile, Torn}
           /\ \A x \in ToSet(holders) : share[x] \notin {NoFile, Torn}
           /\ Len(holders) >= 2
           /\ IsInjective(holders)
           /\ ShamirCombine(ToSet(holders), share) = sealed.key
        THEN {TRUE} ELSE {} }

\* ThresholdOpen and runReveal: the set of artifacts that come out, one or none.
\* K is the one sealed.json says; a holder named twice is refused.
Reveal(holders) ==
    { sealed.seal : x \in
        IF /\ sealed \notin {NoFile, Torn}
           /\ \A x \in ToSet(holders) : share[x] \notin {NoFile, Torn}
           /\ Len(holders) >= sealed.k
           /\ Len(holders) >= 2
           /\ IsInjective(holders)
           /\ ShamirCombine(ToSet(holders), share) = sealed.key
        THEN {TRUE} ELSE {} }

-----------------------------------------------------------------------------
(* he-consent seal. *)

Writing == { s \in Seal : next[s] <= job[s].n }

\* The secret, then k - 1 random ones.
Coefficients(key, k) == { <<key>> \o c : c \in [1..(k - 1) -> Randoms] }

\* ThresholdSeal: everything is computed before the first file is written.
ThresholdSeal(s, key, k, n) ==
    /\ job[s] = NoSeal
    /\ \E coeffs \in Coefficients(key, k) :
          job' = [job EXCEPT ![s] = [seal |-> s, k |-> k, n |-> n, key |-> key, coeffs |-> coeffs]]
    /\ next' = [next EXCEPT ![s] = 0]
    /\ disturbed' = disturbed \cup (IF Writing = {} THEN {} ELSE Writing \cup {s})
    /\ UNCHANGED <<sealed, share, whole>>

Put(file, content) ==
    IF file = 0
    THEN sealed' = content /\ UNCHANGED share
    ELSE share' = [share EXCEPT ![file] = content] /\ UNCHANGED sealed

Content(s) ==
    IF next[s] = 0 THEN job[s] ELSE ShamirSplit(job[s].coeffs, job[s].n)[next[s]]

\* Mutant of WriteFile: the loop over the shares ends before the last one.
WriteFileShort(s) ==
    /\ s \in Writing
    /\ Put(next[s], Content(s))
    /\ next' = [next EXCEPT ![s] = IF @ = job[s].n - 1 THEN job[s].n + 1 ELSE @ + 1]
    /\ whole' = IF next'[s] > job[s].n /\ s \notin disturbed THEN s ELSE NoFile
    /\ UNCHANGED <<job, disturbed>>

\* writeJSON of sealed.json, then of the shares in order.  The directory is
\* whole when the last share is out and nobody else was at it; a seal that is
\* cut off or overtaken leaves a mixture of files.
WriteFile(s) ==
    /\ s \in Writing
    /\ Put(next[s], Content(s))
    /\ next' = [next EXCEPT ![s] = @ + 1]
    /\ whole' = IF next[s] = job[s].n /\ s \notin disturbed THEN s ELSE NoFile
    /\ UNCHANGED <<job, disturbed>>

\* The process dies before a write, or after os.WriteFile has truncated.
CrashSeal(s) ==
    /\ s \in Writing
    /\ next' = [next EXCEPT ![s] = MaxShares + 1]
    /\ \/ UNCHANGED <<sealed, share, whole>>
       \/ Put(next[s], Torn) /\ whole' = NoFile
    /\ UNCHANGED <<job, disturbed>>

ConsentInit ==
    /\ sealed = NoFile
    /\ share = [x \in 1..MaxShares |-> NoFile]
    /\ job = [s \in Seal |-> NoSeal]
    /\ next = [s \in Seal |-> MaxShares + 1]
    /\ disturbed = {}
    /\ whole = NoFile

ConsentNext ==
    \E s \in Seal :
        \/ \E key \in KeySpace, k \in 2..MaxShares : \E n \in k..MaxShares :
              ThresholdSeal(s, key, k, n)
        \/ WriteFile(s)
        \/ CrashSeal(s)

ConsentSpec == ConsentInit /\ [][ConsentNext]_consentVars

-----------------------------------------------------------------------------
(* Properties. *)

\* Shamir's scheme, of the parameters a seal may have: k or more shares give the key.
ShamirOpens ==
    \A key \in KeySpace, k \in 2..MaxShares : \A n \in k..MaxShares :
        \A coeffs \in Coefficients(key, k), xs \in SUBSET (1..n) :
            Cardinality(xs) >= k => ShamirCombine(xs, ShamirSplit(coeffs, n)) = key

\* Shamir's scheme: k - 1 shares are shares of every value of the field.
ShamirHides ==
    \A key \in KeySpace, k \in 2..MaxShares : \A n \in k..MaxShares :
        \A coeffs \in Coefficients(key, k), xs \in SUBSET (1..n) :
            Cardinality(xs) = k - 1 =>
                \A secret \in Field : \E c \in Coefficients(secret, k) :
                    \A x \in xs : Polynomial(c, x) = Polynomial(coeffs, x)

\* What a finished seal leaves behind can be revealed: any k or more of its n
\* share files open sealed.json and yield its artifact, also in a directory that
\* holds share files of earlier, larger, or broken-off seals.
AnyKReveal ==
    whole # NoFile =>
        \A xs \in SUBSET (1..job[whole].n) :
            Cardinality(xs) >= job[whole].k => Reveal(SetToSeq(xs)) = {whole}

\* Fewer than k share files open nothing and tell nothing: for every value of
\* the field, the split might have made these very shares of it.
FewerTellNothing ==
    whole # NoFile =>
        \A xs \in SUBSET (1..job[whole].n) :
            Cardinality(xs) = job[whole].k - 1 =>
                /\ Reveal(SetToSeq(xs)) = {}
                /\ \A secret \in Field : \E c \in Coefficients(secret, job[whole].k) :
                      \A x \in xs : Polynomial(c, x) = share[x]
=============================================================================
