----------------------------- MODULE DeviceGroup ----------------------------
(***************************************************************************)
(* Groups of devices (crates/hide-mls/src/lib.rs): the credential that     *)
(* binds a device to an MLS key, the provider that checks every leaf of a  *)
(* roster against the membership it holds, and the checks an application   *)
(* makes with the log it replayed last.  Membership comes from the log     *)
(* file the identity commands write (IdentityFiles).                       *)
(*                                                                         *)
(* MLS itself is external: it lets a leaf speak only for the holder of its *)
(* MLS key, keeps the devices of a roster distinct, and takes commits from *)
(* any member, of which none is trusted.  An MLS key is named by whoever   *)
(* holds it.  A device whose signing key is stolen is also run by the      *)
(* outsider, who copies every signature it can see.                        *)
(***************************************************************************)
EXTENDS IdentityFiles

CONSTANTS
  Clients,             \* devices whose client and application are followed
  Peers,               \* devices that have a client elsewhere
  Stealable,           \* devices whose signing key may get stolen
  Outsider             \* the holder of an MLS key that is no device's own

ASSUME GroupAssumption ==
  /\ Clients \cup Peers \cup Stealable \subseteq Devices
  /\ Outsider \notin Devices

VARIABLES
  handle,              \* how each client was built: "none", "fixed", "shared"
  enforced,            \* the membership its provider validates against
  replayed,            \* the membership its application replayed last
  roster,              \* the leaves of its group
  out,                 \* devices it removed and has not seen trusted since
  heard,               \* senders accepted since the last replay
  stolen               \* devices whose signing key the outsider has too

groupVars == <<handle, enforced, replayed, roster, out, heard>>
vars == <<fileVars, groupVars, stolen>>

MlsKeys == Devices \cup {Outsider}

(* A binding signature: who made it, and the device and MLS key it covers. *)
BindingSignature == [by : Devices, device : Devices, mls : MlsKeys]

(* A SigningIdentity: its credential and its MLS key.                      *)
SigningIdentity == [type : {"hide", "other"}, device : Devices, key : Devices,
                    signature : BindingSignature, mls : MlsKeys]

binding_message(by, device, mls) == [by |-> by, device |-> device, mls |-> mls]

(* The identity client_with_provider gives a client.                       *)
own(c) == [type |-> "hide", device |-> c, key |-> c,
           signature |-> binding_message(c, c, c), mls |-> c]

Built == Peers \cup {c \in Clients : handle[c] # "none"}

(* Signatures the outsider has: the ones in credentials, and its own with  *)
(* a stolen key.                                                           *)
Lifted ==
  {own(c).signature : c \in Built}
    \cup {binding_message(k, d, Outsider) : k \in stolen, d \in Devices}

(* Identities someone may present: a client's own, and whatever the        *)
(* outsider puts together around its MLS key.                              *)
Presented ==
  {own(c) : c \in Built}
    \cup [type : {"hide", "other"}, device : Devices, key : Devices,
          signature : Lifted, mls : {Outsider}]

-----------------------------------------------------------------------------
(* Binding::parse: a HIDE credential whose id is the hash of its key.      *)
parse(si) == si.type = "hide" /\ si.device = si.key

(* Mutant of verify_binding: the MLS key is left out of what is signed.    *)
verify_binding_lifted(si) == si.signature.by = si.key /\ si.signature.device = si.device

(* Binding::verify: the key signed this device with this MLS key.          *)
verify_binding(si) == si.signature = binding_message(si.key, si.device, si.mls)

(* HideIdentityProvider::validate; a key and its device are one value.     *)
validate(membership, si) ==
  parse(si) /\ verify_binding(si) /\ si.device \in membership

(* identity(): the device, after the credential parses.                    *)
identities(leaves) == {si.device : si \in leaves}

(* valid_successor: the same device, and itself valid.                     *)
valid_successor(membership, old, new) ==
  /\ parse(old) /\ parse(new)
  /\ old.device = new.device
  /\ validate(membership, new)

(* untrusted_members: leaves whose device the log does not trust.          *)
untrusted_members(leaves, membership) == {si \in leaves : si.device \notin membership}

(* accept_from_trusted, with the membership the application replayed last. *)
accept_from_trusted(c, sender) ==
  parse(sender) /\ verify_binding(sender) /\ sender.device \in replayed[c]

-----------------------------------------------------------------------------
GroupInit ==
  /\ handle = [c \in Clients |-> "none"]
  /\ enforced = [c \in Clients |-> {}]
  /\ replayed = [c \in Clients |-> {}]
  /\ roster = [c \in Clients |-> {}]
  /\ out = [c \in Clients |-> {}]
  /\ heard = [c \in Clients |-> {}]

(* client_for keeps no handle to its provider, client_with_provider does;  *)
(* both refuse a device the membership does not have.                      *)
ClientWithProvider(c) ==
  /\ handle[c] = "none"
  /\ verify(file) /\ c \in membership_of(file)
  /\ \E kind \in {"fixed", "shared"} : handle' = [handle EXCEPT ![c] = kind]
  /\ enforced' = [enforced EXCEPT ![c] = membership_of(file)]
  /\ replayed' = [replayed EXCEPT ![c] = membership_of(file)]
  /\ UNCHANGED <<roster, out, heard>>

(* Mutant of update: the client validates against a copy of its own.       *)
update_copy(c, membership) == enforced[c]

(* update() writes through the lock every clone of the provider shares; a  *)
(* client built without a handle keeps the membership it was built with.   *)
update(c, membership) == IF handle[c] = "shared" THEN membership ELSE enforced[c]

(* The application replays the log and updates the provider.               *)
Refresh(c) ==
  /\ handle[c] # "none"
  /\ verify(file)
  /\ LET membership == membership_of(file) IN
     /\ replayed' = [replayed EXCEPT ![c] = membership]
     /\ enforced' = [enforced EXCEPT ![c] = update(c, membership)]
     /\ out' = [out EXCEPT ![c] = @ \ membership]
  /\ heard' = [heard EXCEPT ![c] = {}]
  /\ UNCHANGED <<handle, roster>>

(* A group is created, or joined from a welcome: every leaf is validated.  *)
Join(c) ==
  /\ handle[c] # "none" /\ roster[c] = {}
  /\ \E others \in SUBSET {si \in Presented : validate(enforced[c], si)} :
       /\ c \notin identities(others)
       /\ \A s1, s2 \in others : s1.device = s2.device => s1 = s2
       /\ roster' = [roster EXCEPT ![c] = {own(c)} \cup others]
  /\ UNCHANGED <<handle, enforced, replayed, out, heard>>

(* A commit, by this client or any other member, adds a leaf.              *)
ValidateMember(c) ==
  /\ roster[c] # {}
  /\ \E si \in Presented :
       /\ validate(enforced[c], si)
       /\ si.device \notin identities(roster[c])
       /\ roster' = [roster EXCEPT ![c] = @ \cup {si}]
  /\ UNCHANGED <<handle, enforced, replayed, out, heard>>

(* An update or an external commit replaces a leaf.                        *)
ValidSuccessor(c) ==
  /\ \E old \in roster[c] \ {own(c)}, new \in Presented :
       /\ old # new
       /\ valid_successor(enforced[c], old, new)
       /\ roster' = [roster EXCEPT ![c] = (@ \ {old}) \cup {new}]
  /\ UNCHANGED <<handle, enforced, replayed, out, heard>>

(* The application removes the members its log does not trust; MLS lets    *)
(* nobody commit the removal of its own leaf.                              *)
Evict(c) ==
  /\ LET stale == untrusted_members(roster[c], replayed[c]) \ {own(c)} IN
     /\ stale # {}
     /\ roster' = [roster EXCEPT ![c] = @ \ stale]
     /\ out' = [out EXCEPT ![c] = @ \cup identities(stale)]
  /\ UNCHANGED <<handle, enforced, replayed, heard>>

(* A message from another leaf arrives and is accepted.                    *)
Receive(c) ==
  /\ \E sender \in roster[c] \ {own(c)} :
       /\ accept_from_trusted(c, sender)
       /\ heard' = [heard EXCEPT ![c] =
                      @ \cup {[device |-> sender.device, holder |-> sender.mls]}]
  /\ UNCHANGED <<handle, enforced, replayed, roster, out>>

Client(c) ==
  \/ ClientWithProvider(c)
  \/ Refresh(c)
  \/ Join(c)
  \/ ValidateMember(c)
  \/ ValidSuccessor(c)
  \/ Evict(c)
  \/ Receive(c)

-----------------------------------------------------------------------------
Init == FilesInit /\ GroupInit /\ stolen = {}

Steal ==
  /\ \E d \in Stealable \ stolen : stolen' = stolen \cup {d}
  /\ UNCHANGED <<fileVars, groupVars>>

Next ==
  \/ \E p \in Processes : Command(p) /\ UNCHANGED <<groupVars, stolen>>
  \/ LosePower /\ UNCHANGED <<groupVars, stolen>>
  \/ \E c \in Clients : Client(c) /\ UNCHANGED <<fileVars, stolen>>
  \/ Steal

Spec == Init /\ [][Next]_vars

-----------------------------------------------------------------------------
TypeOK ==
  /\ FilesTypeOK
  /\ handle \in [Clients -> {"none", "fixed", "shared"}]
  /\ enforced \in [Clients -> SUBSET Devices]
  /\ replayed \in [Clients -> SUBSET Devices]
  /\ \A c \in Clients : roster[c] \subseteq SigningIdentity
  /\ stolen \subseteq Stealable
  /\ out \in [Clients -> SUBSET Devices]
  /\ \A c \in Clients : heard[c] \subseteq [device : Devices, holder : MlsKeys]

(* Every leaf of a roster is held by the device it names, or that device's *)
(* signing key is stolen: no signature lifted from another credential, no  *)
(* id beside another device's key and no foreign credential gets in or is  *)
(* heard, and no two leaves name one device.                               *)
RosterIsVouched ==
  \A c \in Clients :
    /\ \A si \in roster[c] : si.mls = si.device \/ si.device \in stolen
    /\ \A h \in heard[c] : h.holder = h.device \/ h.device \in stolen
    /\ \A s1, s2 \in roster[c] : s1.device = s2.device => s1 = s2

(* A device that an application found revoked and removed stays out of the *)
(* group, whatever the other members commit and whoever replaces a leaf,   *)
(* until a log that trusts it again is replayed: update() reached the      *)
(* provider inside the running client.  A client built without a handle    *)
(* has no such promise; but no application accepts a message from a device *)
(* the log it replayed last does not trust, also while the roster still    *)
(* has its leaf (accept_from_trusted).                                     *)
RevokedStaysOut ==
  \A c \in Clients :
    /\ handle[c] = "shared" => identities(roster[c]) \cap out[c] = {}
    /\ \A h \in heard[c] : h.device \in replayed[c]
=============================================================================
