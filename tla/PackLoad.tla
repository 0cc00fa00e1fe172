---- MODULE PackLoad ----
(***************************************************************************)
(* Loading a signed probe pack (packs.rs): the manifest, its signature and *)
(* the trusted key are read one after the other, each through stat, open,  *)
(* fstat and a bounded read, while others may replace or rewrite the       *)
(* files; then the signature is verified over the bytes that were read and *)
(* the same bytes are parsed and validated. A text is what a file says;    *)
(* what it means is given by constants.                                    *)
(***************************************************************************)
EXTENDS Naturals, FiniteSets, SequencesExt

CONSTANTS
  Builtins,     \* the sequence of probe IDs compiled in
  Stored,       \* Stored[role]: what may be at that path, now or later
  Limit,        \* Limit[role]: the most that is read of it
  Signed,       \* <<key, manifest, signature>>: texts that verify_strict accepts
  Manifests     \* the texts that parse, each with its fields

Roles == <<"manifest", "signature", "key">>      \* in the order of load
Role == Range(Roles)
File == [kind : {"regular", "fifo", "absent"}, size : Nat, text : STRING]
Nothing == [kind |-> "absent", size |-> 0, text |-> ""]

ASSUME BuiltinsAssumption == Builtins \in Seq(STRING)
ASSUME StoredAssumption == \A r \in Role : Stored[r] # {} /\ Stored[r] \subseteq File
ASSUME LimitAssumption == \A r \in Role : Limit[r] \in Nat
ASSUME ManifestsAssumption == \A m \in DOMAIN Manifests :
  Manifests[m] \in [schema : Nat, named : BOOLEAN, probes : Seq(STRING)]

VARIABLES
  path,      \* path[r]: the file that the path leads to
  turn,      \* the position in Roles of what is being read
  step,      \* "stat", "open", "fstat" or "read"; "verify" when all is read
  handle,    \* the open file; it stays the same one when its path is replaced
  texts,     \* what has been read
  pack,      \* "none" asked for, "loading", "rejected" or "accepted"
  active     \* the probes of the run
packVars == <<path, turn, step, handle, texts, pack, active>>

NoPaths == [r \in Role |-> Nothing]

\* withPack: --probe-pack and --probe-pack-key were given (each requires the other).
PackInit(withPack) ==
  /\ turn = 1 /\ step = "stat" /\ handle = Nothing /\ texts = NoPaths
  /\ active = Builtins
  /\ IF withPack THEN pack = "loading" /\ path \in [Role -> UNION {Stored[r] : r \in Role}]
                      /\ \A r \in Role : path[r] \in Stored[r]
     ELSE pack = "none" /\ path = NoPaths

-----------------------------------------------------------------------------
(* read_bounded *)

Loading(s) == pack = "loading" /\ step = s
Reading == Roles[turn]
Regular(f) == f.kind = "regular"

\* load returns: what was read is gone, and the files are of no further concern.
Return(result, probes) ==
  /\ pack' = result /\ active' = probes
  /\ path' = NoPaths /\ turn' = 1 /\ step' = "stat"
  /\ handle' = Nothing /\ texts' = NoPaths
Reject == Return("rejected", active)

\* require_regular_file(fs::metadata(path)), which follows links.
Stat ==
  /\ Loading("stat")
  /\ IF Regular(path[Reading])
       THEN step' = "open" /\ UNCHANGED <<path, turn, handle, texts, pack, active>>
       ELSE Reject

\* Mutant of Open: the open of a FIFO waits for a writer, without O_NONBLOCK.
OpenBlocking ==
  /\ Loading("open")
  /\ path[Reading].kind # "fifo"
  /\ IF path[Reading].kind = "absent" THEN Reject
     ELSE /\ handle' = path[Reading] /\ step' = "fstat"
          /\ UNCHANGED <<path, turn, texts, pack, active>>

Open ==
  /\ Loading("open")
  /\ IF path[Reading].kind = "absent" THEN Reject
     ELSE /\ handle' = path[Reading] /\ step' = "fstat"
          /\ UNCHANGED <<path, turn, texts, pack, active>>

\* require_regular_file and the size, both of the open file.
Fstat ==
  /\ Loading("fstat")
  /\ IF Regular(handle) /\ handle.size <= Limit[Reading]
       THEN step' = "read" /\ UNCHANGED <<path, turn, handle, texts, pack, active>>
       ELSE Reject

TurnEnds ==
  /\ handle' = Nothing
  /\ IF turn < Len(Roles) THEN turn' = turn + 1 /\ step' = "stat"
                          ELSE step' = "verify" /\ UNCHANGED turn

\* take(limit + 1), which tells a file that has grown beyond the limit.
Read ==
  /\ Loading("read")
  /\ IF handle.size > Limit[Reading] THEN Reject
     ELSE /\ texts' = [texts EXCEPT ![Reading] = handle] /\ TurnEnds
          /\ UNCHANGED <<path, pack, active>>

-----------------------------------------------------------------------------
(* verify_and_parse, validate *)

Verified(t) == <<t["key"].text, t["manifest"].text, t["signature"].text>> \in Signed

Valid(m) ==
  /\ m.schema = 1 /\ m.named /\ m.probes # <<>>
  /\ IsInjective(m.probes) /\ Range(m.probes) \subseteq Range(Builtins)

\* Mutant of VerifyAndParse: the manifest is read again to be parsed.
VerifyAndParseAgain ==
  /\ Loading("verify")
  /\ LET text == path["manifest"].text
     IN IF Verified(texts) /\ text \in DOMAIN Manifests /\ Valid(Manifests[text])
          THEN Return("accepted", Manifests[text].probes)
          ELSE Reject

VerifyAndParse ==
  /\ Loading("verify")
  /\ LET text == texts["manifest"].text
     IN IF Verified(texts) /\ text \in DOMAIN Manifests /\ Valid(Manifests[text])
          THEN Return("accepted", Manifests[text].probes)
          ELSE Reject

Load == Stat \/ Open \/ Fstat \/ Read \/ VerifyAndParse

-----------------------------------------------------------------------------
(* The disk fails, and others work on the files meanwhile. *)

\* Another file takes the path, by rename or as the target of a link.
Replace(r) ==
  /\ pack = "loading"
  /\ \E f \in Stored[r] \ {path[r]} : path' = [path EXCEPT ![r] = f]
  /\ UNCHANGED <<turn, step, handle, texts, pack, active>>

\* The open file is written to in place.
Rewrite ==
  /\ pack = "loading" /\ Regular(handle)
  /\ \E f \in Stored[Reading] \ {handle} : Regular(f) /\ handle' = f
  /\ UNCHANGED <<path, turn, step, texts, pack, active>>

\* metadata, open, fstat or read returns an error.
IoError == pack = "loading" /\ step # "verify" /\ Reject

Meddle == Rewrite \/ IoError \/ \E r \in Role : Replace(r)

-----------------------------------------------------------------------------
(* Properties *)

\* A pack is accepted only as the trusted key signed it: at the step that accepts it
\* what was read under the three limits verifies together, and the probes of the
\* run are those of that very manifest, each compiled in and none twice, whatever has
\* happened to the three files since they were opened (packs.rs:97-114: the bytes that
\* are verified are the bytes that are parsed).
AcceptedAsSigned ==
  /\ \A r \in Role : texts[r] \in Stored[r] /\ texts[r].size <= Limit[r]
  /\ <<texts["key"].text, texts["manifest"].text, texts["signature"].text>> \in Signed
  /\ active' = Manifests[texts["manifest"].text].probes
  /\ active' # <<>>
  /\ Cardinality(Range(active') \cap Range(Builtins)) = Len(active')
PackIsWhatWasSigned ==
  [][/\ pack' = "accepted" /\ pack # "accepted" => AcceptedAsSigned
     /\ active' # active => pack' = "accepted" /\ pack = "loading"]_<<pack, active, texts>>
====
