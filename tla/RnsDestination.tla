--------------------------- MODULE RnsDestination ---------------------------
(***************************************************************************)
(* Class Destination (src/shared/rns/index.js): an IN destination with its *)
(* ratchets, which it announces, rotates, saves and loads, and an OUT      *)
(* destination of another node that sends single packets to it.            *)
(*                                                                         *)
(* Ratchets are numbered as they are made.  An announce may reach the      *)
(* sender late and after newer ones, so it sends under any announced one.  *)
(* The application awaits loadRatchets() before it announces, and a save   *)
(* ends, or fails, within RATCHET_INTERVAL_MS.                             *)
(***************************************************************************)
EXTENDS Naturals, Sequences, FiniteSets, Functions

CONSTANTS
  RATCHET_COUNT,   \* ratchets a destination retains
  Packets,         \* packets the sender sends with requestProof
  MaxRatchets      \* bound: ratchets made

ASSUME DestinationAssumption == RATCHET_COUNT \in Nat \ {0} /\ MaxRatchets \in Nat \ {0}

VARIABLES
  made,         \* ratchets made so far
  ratchets,     \* the retained ones, newest first
  loading,      \* whether loadRatchets() is awaited
  saving,       \* what saveRatchets() is at
  file,         \* the ratchets in the file; <<>> when it is missing or torn
  announced,    \* ratchets announced
  orphaned,     \* announced ones that a restart did not find in the file
  packet,       \* packet[p]: the ratchet it is encrypted under, its promise
  read,         \* packets that were decrypted
  proofs        \* packets with a proof under way

destinationVars ==
  <<made, ratchets, loading, saving, file, announced, orphaned, packet, read, proofs>>
senderVars == <<packet, read, proofs>>

Ratchet == 1 .. MaxRatchets
Unsent == [ratchet |-> 0, promise |-> "none"]

DestinationTypeOK ==
  /\ made \in Ratchet /\ loading \in BOOLEAN /\ saving \in {"none", "called", "writing"}
  /\ ratchets \in Seq(Ratchet) /\ Len(ratchets) \in 1 .. RATCHET_COUNT
  /\ file \in Seq(Ratchet) /\ Len(file) <= RATCHET_COUNT
  /\ announced \subseteq Ratchet /\ orphaned \subseteq announced
  /\ packet \in [Packets -> [ratchet : 0 .. MaxRatchets,
                             promise : {"none", "pending", "proved", "rejected"}]]
  /\ read \subseteq Packets /\ proofs \subseteq Packets

(* The constructor seeds the list with the identity's ratchet, which is    *)
(* made anew with every Identity.                                          *)
DestinationInit ==
  /\ made = 1 /\ ratchets = <<1>> /\ loading = TRUE
  /\ saving = "none" /\ file = <<>>
  /\ announced = {} /\ orphaned = {}
  /\ packet = [p \in Packets |-> Unsent] /\ read = {} /\ proofs = {}

(* A packet encrypted under a ratchet, and the keys that open it.          *)
Encrypted(ratchet) == [ratchet |-> ratchet, promise |-> "pending"]
Opens(keys, p) == packet[p].ratchet \in Range(keys)

---------------------------------------------------------------------------
(* The list after a rotation.                                              *)
RotatedReplacing(list, new) == <<new>>                \* mutant

Rotated(list, new) ==
  LET longer == <<new>> \o list
  IN  IF Len(longer) > RATCHET_COUNT THEN SubSeq(longer, 1, RATCHET_COUNT) ELSE longer

(* announce(), before and after the interval has passed.                   *)
Announced(ratchet) == announced' = announced \cup {ratchet}

AnnounceSame ==
  /\ ~loading
  /\ Announced(Head(ratchets))
  /\ UNCHANGED <<made, ratchets, loading, saving, file, orphaned, senderVars>>

AnnounceRotated ==
  /\ ~loading /\ made < MaxRatchets /\ saving = "none"
  /\ made' = made + 1
  /\ ratchets' = Rotated(ratchets, made + 1)
  /\ Announced(made + 1)
  /\ saving' = "called"
  /\ UNCHANGED <<loading, file, orphaned, senderVars>>

(* saveRatchets(), which nobody awaits: writeFile() empties the file       *)
(* before it writes it, and an error at any point is swallowed.            *)
OpenFile ==
  /\ saving = "called" /\ saving' = "writing"
  /\ file' = <<>>
  /\ UNCHANGED <<made, ratchets, loading, announced, orphaned, senderVars>>

WriteFile ==
  /\ saving = "writing" /\ saving' = "none"
  /\ file' = ratchets
  /\ UNCHANGED <<made, ratchets, loading, announced, orphaned, senderVars>>

SaveFails ==
  /\ saving # "none" /\ saving' = "none"
  /\ UNCHANGED <<made, ratchets, loading, file, announced, orphaned, senderVars>>

(* The process ends, in a save or not, and starts again from the private   *)
(* key.                                                                    *)
RestartDestination ==
  /\ made < MaxRatchets
  /\ made' = made + 1 /\ ratchets' = <<made + 1>> /\ loading' = TRUE
  /\ saving' = "none"
  /\ orphaned' = orphaned \cup (announced \ Range(file))
  /\ UNCHANGED <<file, announced, senderVars>>

LoadRatchets ==
  /\ loading /\ loading' = FALSE
  /\ ratchets' = IF file = <<>> THEN ratchets ELSE file
  /\ UNCHANGED <<made, saving, file, announced, orphaned, senderVars>>

---------------------------------------------------------------------------
(* Destination.send() with requestProof.                                   *)
SendPacket(p) ==
  /\ packet[p].promise = "none"
  /\ \E r \in announced : packet' = [packet EXCEPT ![p] = Encrypted(r)]
  /\ UNCHANGED <<made, ratchets, loading, saving, file, announced, orphaned, read, proofs>>

(* onData() for a copy of it: every retained ratchet is tried.  Whether    *)
(* the application proves it is its own choice.                            *)
OnData(p) ==
  /\ Opens(ratchets, p)
  /\ read' = read \cup {p}
  /\ proofs' \in {proofs, proofs \cup {p}}
  /\ UNCHANGED <<made, ratchets, loading, saving, file, announced, orphaned, packet>>

(* _handlePacketProof(), and the timer of the promise.                     *)
Conclude(p, how) ==
  /\ packet[p].promise = "pending"
  /\ packet' = [packet EXCEPT ![p].promise = how]
  /\ UNCHANGED <<made, ratchets, loading, saving, file, announced, orphaned, read, proofs>>

HandlePacketProof(p) == p \in proofs /\ Conclude(p, "proved")
ProofTimeout(p) == Conclude(p, "rejected")

DestinationNext ==
  \/ AnnounceSame \/ AnnounceRotated \/ OpenFile \/ WriteFile \/ SaveFails
  \/ RestartDestination \/ LoadRatchets
  \/ \E p \in Packets : SendPacket(p) \/ OnData(p) \/ HandlePacketProof(p) \/ ProofTimeout(p)

DestinationSpec == DestinationInit /\ [][DestinationNext]_destinationVars

---------------------------------------------------------------------------
(* RATCHET_COUNT newer ones were announced.                                *)
Outdated(r) == Cardinality({x \in announced : x > r}) >= RATCHET_COUNT

(* Once its ratchets are loaded, a destination can read whatever was sent  *)
(* under a ratchet it announced, however late, unless that one is outdated *)
(* or a restart did not find it in the file; and a proved packet was read. *)
SentIsReadable ==
  \A p \in Packets :
    /\ (packet[p] # Unsent /\ ~loading) =>
         packet[p].ratchet \in Range(ratchets) \cup orphaned \/ Outdated(packet[p].ratchet)
    /\ packet[p].promise = "proved" => p \in read
=============================================================================
