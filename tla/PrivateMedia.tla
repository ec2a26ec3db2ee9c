----------------------------- MODULE PrivateMedia -----------------------------
(***************************************************************************)
(* Import of a file into a project: importProjectMedia of                  *)
(* src/mcp/session-store-service.ts over the private media library         *)
(* (src/src/media/private-media-library.ts), the audio normalizer          *)
(* (private-audio-normalization.ts), the asset journal of the project      *)
(* (src/mcp/project-asset-registry.ts) and the records of visual media     *)
(* (project-media-store.ts).                                               *)
(*                                                                         *)
(* The library and the assets keep pairs of files, an object and its       *)
(* metadata, published by two links that refuse a name that is taken; the  *)
(* call that published an object without its metadata takes it back.       *)
(* Calls run in any servers: project locks do not keep them apart.  Any    *)
(* operation may fail, and a server may die between two of them.           *)
(*                                                                         *)
(* A digest is the content it is taken of.  Temporary files have random    *)
(* names, nobody reads them; files are whole when they are linked.         *)
(***************************************************************************)
EXTENDS Integers

CONSTANTS
  Imports,    \* calls of importProjectMedia, all for one project
  Contents,   \* what the imported files hold
  Kinds,      \* "audio" and "visual": the kind follows from the extension
  Encodings   \* what FFmpeg may make of a content

VARIABLES
  pairs,      \* objects and metadata, of the library and of project-assets
  journal,    \* the asset journal of the project: an encoding per content
  records,    \* private-media-records: the contents with a record
  import      \* the calls

importVars == <<pairs, journal, records, import>>

Missing == "missing"

ASSUME ImportConstants == Missing \notin Contents \cup Kinds \cup Encodings

Stores == {"library", "assets"}
ImportPcs == {"idle", "object", "metadata", "verify", "compare", "remove", "normalize",
              "encode", "read", "register", "record", "done", "failed", "crashed"}

\* own: the pair the call would publish; undo: it published the object and not the
\* metadata; seen: what the first read of a verification returned.
NewImport == [pc |-> "idle", content |-> Missing, kind |-> Missing, store |-> "library",
              own |-> Missing, undo |-> FALSE, seen |-> Missing]

NoPair == [object |-> Missing, metadata |-> Missing]

ImportInit ==
  /\ pairs = [s \in Stores |-> [c \in Contents |-> NoPair]]
  /\ journal = [c \in Contents |-> Missing]
  /\ records = {}
  /\ import = [i \in Imports |-> NewImport]

ImportTypeOK ==
  /\ \A s \in Stores, c \in Contents :
       /\ pairs[s][c].object \in (IF s = "library" THEN Contents ELSE Encodings) \cup {Missing}
       /\ pairs[s][c].metadata \in (IF s = "library" THEN Kinds ELSE Encodings) \cup {Missing}
  /\ journal \in [Contents -> Encodings \cup {Missing}]
  /\ records \subseteq Contents
  /\ \A i \in Imports : import[i].pc \in ImportPcs /\ import[i].store \in Stores

-----------------------------------------------------------------------------

ImportAt(i, pc) == import[i].pc = pc
ImportGoes(i, pc) == import' = [import EXCEPT ![i].pc = pc]

\* The pair of files call i is at, its metadata, and its object.
Pair(i) == pairs[import[i].store][import[i].content]
Puts(i, part, value) == pairs' = [pairs EXCEPT ![import[i].store][import[i].content][part] = value]

InLibrary(i) == import[i].store = "library"
OwnMetadata(i) == IF InLibrary(i) THEN import[i].kind ELSE import[i].own

\* Mutant: whoever meets an object without metadata takes it back.
Refused_TakesBackAny(i) == ImportGoes(i, "remove")

\* A verification that fails: the publisher of an object without metadata takes it back.
Refused(i) == ImportGoes(i, IF import[i].undo THEN "remove" ELSE "failed")

\* openedAuthorizedSource and copyAndHash: the file is in a temporary object.
CopySource(i) ==
  /\ ImportAt(i, "idle")
  /\ \E c \in Contents, k \in Kinds :
       import' = [import EXCEPT ![i] = [NewImport EXCEPT !.pc = "object", !.content = c,
                                                         !.kind = k, !.own = c]]
  /\ UNCHANGED <<pairs, journal, records>>

\* The first link. A name that is taken is left as it is, and verified; the normalizer
\* does so when metadata is there.
LinkObject(i) ==
  /\ ImportAt(i, "object")
  /\ IF Pair(i).object = Missing
     THEN /\ Puts(i, "object", import[i].own)
          /\ import' = [import EXCEPT ![i].pc = "metadata", ![i].undo = TRUE]
     ELSE /\ ImportGoes(i, IF InLibrary(i) \/ Pair(i).metadata # Missing THEN "verify" ELSE "failed")
          /\ UNCHANGED pairs
  /\ UNCHANGED <<journal, records>>

\* The second.
LinkMetadata(i) ==
  /\ ImportAt(i, "metadata")
  /\ IF Pair(i).metadata = Missing
     THEN /\ Puts(i, "metadata", OwnMetadata(i))
          /\ import' = [import EXCEPT ![i].pc = "verify", ![i].undo = FALSE]
     ELSE ImportGoes(i, "verify") /\ UNCHANGED pairs
  /\ UNCHANGED <<journal, records>>

\* The metadata cannot be written or linked: verify what is there.
LinkMetadataFails(i) ==
  /\ ImportAt(i, "metadata")
  /\ ImportGoes(i, "verify")
  /\ UNCHANGED <<pairs, journal, records>>

\* verifyStoredMedia hashes the object and then reads the metadata,
\* verifyNormalizedAudio reads the metadata and then hashes the object.
VerifyFirst(i) ==
  /\ ImportAt(i, "verify")
  /\ LET first == IF InLibrary(i) THEN Pair(i).object ELSE Pair(i).metadata
     IN IF first = Missing \/ (InLibrary(i) /\ first # import[i].own)
        THEN Refused(i)
        ELSE import' = [import EXCEPT ![i].pc = "compare", ![i].seen = first]
  /\ UNCHANGED <<pairs, journal, records>>

\* Stored media goes on by its kind; the asset is what the metadata says it is.
VerifySecond(i) ==
  /\ ImportAt(i, "compare")
  /\ IF InLibrary(i)
     THEN IF Pair(i).metadata = import[i].kind
          THEN ImportGoes(i, IF import[i].kind = "audio" THEN "normalize" ELSE "record")
          ELSE Refused(i)
     ELSE IF Pair(i).object = import[i].seen
          THEN import' = [import EXCEPT ![i].pc = "read", ![i].own = import[i].seen]
          ELSE Refused(i)
  /\ UNCHANGED <<pairs, journal, records>>

VerifyFails(i) ==
  /\ import[i].pc \in {"verify", "compare"}
  /\ Refused(i)
  /\ UNCHANGED <<pairs, journal, records>>

\* removePublishedObject, removePublishedOutput: hashed once more before the unlink.
RemovePublished(i) ==
  /\ ImportAt(i, "remove")
  /\ IF Pair(i).object = import[i].own THEN Puts(i, "object", Missing) ELSE UNCHANGED pairs
  /\ ImportGoes(i, "failed")
  /\ UNCHANGED <<journal, records>>

-----------------------------------------------------------------------------
(* Audio. *)

\* storedAudio and the probe; then an asset that is there is verified.
Normalize(i) ==
  /\ ImportAt(i, "normalize")
  /\ import' = [import EXCEPT ![i].store = "assets", ![i].undo = FALSE, ![i].seen = Missing,
       ![i].pc = IF pairs["assets"][import[i].content].metadata = Missing THEN "encode" ELSE "verify"]
  /\ UNCHANGED <<pairs, journal, records>>

Encode(i) ==
  /\ ImportAt(i, "encode")
  /\ \E e \in Encodings : import' = [import EXCEPT ![i].pc = "object", ![i].own = e]
  /\ UNCHANGED <<pairs, journal, records>>

\* registerProjectAudioAsset: an entry that is there must be the same one.
ReadJournal(i) ==
  /\ ImportAt(i, "read")
  /\ ImportGoes(i, CASE journal[import[i].content] = Missing -> "register"
               [] journal[import[i].content] = import[i].own -> "done"
               [] OTHER -> "failed")
  /\ UNCHANGED <<pairs, journal, records>>

RegisterAsset(i) ==
  /\ ImportAt(i, "register")
  /\ LET entry == journal[import[i].content]
     IN IF entry = Missing
        THEN journal' = [journal EXCEPT ![import[i].content] = import[i].own] /\ ImportGoes(i, "done")
        ELSE ImportGoes(i, IF entry = import[i].own THEN "done" ELSE "failed") /\ UNCHANGED journal
  /\ UNCHANGED <<pairs, records>>

-----------------------------------------------------------------------------
(* Visual media: inspect decodes it, save links its record. The facts of a *)
(* content are the same for every call.                                    *)

SaveRecord(i) ==
  /\ ImportAt(i, "record")
  /\ records' = records \cup {import[i].content}
  /\ ImportGoes(i, "done")
  /\ UNCHANGED <<pairs, journal>>

-----------------------------------------------------------------------------
(* Failures. *)

\* FFmpeg, a probe or the first link fails. The normalizer still takes what another
\* call has published meanwhile.
EncodeFails(i) ==
  /\ import[i].pc \in {"encode", "object"}
  /\ ImportGoes(i, IF ~InLibrary(i) /\ Pair(i).metadata # Missing THEN "verify" ELSE "failed")
  /\ UNCHANGED <<pairs, journal, records>>

\* Any other operation fails and the call is rejected.
ImportFails(i) ==
  /\ import[i].pc \in {"normalize", "read", "register", "record", "remove"}
  /\ ImportGoes(i, "failed")
  /\ UNCHANGED <<pairs, journal, records>>

ImportDies(i) ==
  /\ import[i].pc \notin {"idle", "done", "failed", "crashed"}
  /\ ImportGoes(i, "crashed")
  /\ UNCHANGED <<pairs, journal, records>>

ImportNext ==
  \E i \in Imports :
    \/ CopySource(i) \/ LinkObject(i) \/ LinkMetadata(i) \/ LinkMetadataFails(i)
    \/ VerifyFirst(i) \/ VerifySecond(i) \/ VerifyFails(i) \/ RemovePublished(i)
    \/ Normalize(i) \/ Encode(i) \/ ReadJournal(i) \/ RegisterAsset(i) \/ SaveRecord(i)
    \/ EncodeFails(i) \/ ImportFails(i) \/ ImportDies(i)

ImportSpec == ImportInit /\ [][ImportNext]_importVars

-----------------------------------------------------------------------------
(* Properties. *)

\* What an import has returned stays: the object and metadata of its content are in the
\* library under its kind; audio has its asset, its metadata and a journal entry, and
\* all three are one encoding, the one that was returned; visual media has its record.
\* No failure, crash or clean-up of another import takes any of it away.
ImportsStay ==
  \A i \in Imports : import[i].pc = "done" =>
    LET c == import[i].content
    IN /\ pairs["library"][c] = [object |-> c, metadata |-> import[i].kind]
       /\ import[i].kind = "audio" =>
            /\ pairs["assets"][c] = [object |-> import[i].own, metadata |-> import[i].own]
            /\ journal[c] = import[i].own
       /\ import[i].kind = "visual" => c \in records
==============================================================================
