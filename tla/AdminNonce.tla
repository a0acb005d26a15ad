------------------------------- MODULE AdminNonce -------------------------------
(***************************************************************************)
(* The administrator of the vault and the nonces of its calls.             *)
(*                                                                         *)
(* A batch_charge or rotate_admin call names a signer and carries a nonce. *)
(* The network may deliver it late, more than once, in another order than  *)
(* it was signed, or after the signer lost or regained the office, and two *)
(* clients of one administrator may sign different calls with one nonce:   *)
(* an action is the delivery of such a call, for every signer and nonce at *)
(* any time.  A call that returns an error writes nothing, so only the     *)
(* deliveries that succeed are written down.                               *)
(***************************************************************************)
EXTENDS Integers, Sequences

CONSTANTS
  Accounts,   \* addresses that can sign
  Contract,   \* the vault's own address, which cannot
  None,       \* Rust's None
  U64_MAX     \* largest nonce: check_and_advance panics there

ASSUME AdminAssumption ==
  U64_MAX \in Nat /\ Contract \notin Accounts /\ None \notin Accounts \cup {Contract}

\* DOMAIN_BATCH_CHARGE and DOMAIN_ADMIN_ROTATION.
Domains == {"batch", "adm_rot"}

VARIABLES
  admin,   \* DataKey::Admin
  stopped, \* DataKey::EmergencyStop
  nonce,   \* DataKey::AdminNonce(signer, domain)
  reigns,  \* history: the administrators, from the first to the present one
  ran      \* history: the calls that consumed a nonce, by signer and domain

vars == <<admin, stopped, nonce, reigns, ran>>

Entry == [nonce: Nat, reign: Nat]

TypeOK ==
  /\ admin \in Accounts \cup {Contract, None}
  /\ stopped \in BOOLEAN
  /\ nonce \in [Accounts -> [Domains -> 0 .. U64_MAX]]
  /\ reigns \in Seq(Accounts \cup {Contract})
  /\ ran \in [Accounts -> [Domains -> Seq(Entry)]]

Init ==
  /\ admin = None
  /\ stopped = FALSE
  /\ nonce = [s \in Accounts |-> [d \in Domains |-> 0]]
  /\ reigns = << >>
  /\ ran = [s \in Accounts |-> [d \in Domains |-> << >>]]

-------------------------------------------------------------------------------
\* init, by anybody and once; the administrator may be any address.
Initialize(a) ==
  /\ admin = None
  /\ admin' = a
  /\ reigns' = Append(reigns, a)
  /\ UNCHANGED <<stopped, nonce, ran>>

\* The signer is whoever signed.
RequireAdminAuthUnchecked(s) == admin # None

\* require_admin_auth and require_stored_admin_auth.
RequireAdminAuth(s) == admin = s

\* Accepts a nonce that was already used.
CheckAndAdvanceAtMost(s, d, n) ==
  /\ n <= nonce[s][d] /\ nonce[s][d] < U64_MAX
  /\ nonce' = [nonce EXCEPT ![s][d] = @ + 1]
  /\ ran' = [ran EXCEPT ![s][d] =
               Append(@, [nonce |-> n, reign |-> Len(reigns)])]

\* The call with nonce n of signer s in domain d goes through.
CheckAndAdvance(s, d, n) ==
  /\ n = nonce[s][d] /\ n < U64_MAX
  /\ nonce' = [nonce EXCEPT ![s][d] = @ + 1]
  /\ ran' = [ran EXCEPT ![s][d] =
               Append(@, [nonce |-> n, reign |-> Len(reigns)])]

\* batch_charge; what it charges is module Vault's.
BatchCharge(s, n) ==
  /\ ~stopped
  /\ RequireAdminAuth(s)
  /\ CheckAndAdvance(s, "batch", n)
  /\ UNCHANGED <<admin, stopped, reigns>>

\* Draws on the nonces of batch_charge.
RotateAdminInBatch(s, new, n) ==
  /\ RequireAdminAuth(s)
  /\ CheckAndAdvance(s, "batch", n)
  /\ new # s /\ new # Contract
  /\ admin' = new
  /\ reigns' = Append(reigns, new)
  /\ UNCHANGED stopped

\* An error after the nonce was advanced rolls the nonce back too.
RotateAdmin(s, new, n) ==
  /\ RequireAdminAuth(s)
  /\ CheckAndAdvance(s, "adm_rot", n)
  /\ new # s /\ new # Contract
  /\ admin' = new
  /\ reigns' = Append(reigns, new)
  /\ UNCHANGED stopped

\* An administrator's call without a nonce.
SetEmergencyStop(s, on) ==
  /\ RequireAdminAuth(s)
  /\ stopped' = on
  /\ UNCHANGED <<admin, nonce, reigns, ran>>

Next ==
  \/ \E a \in Accounts \cup {Contract} : Initialize(a)
  \/ \E s \in Accounts :
       \/ \E on \in BOOLEAN : SetEmergencyStop(s, on)
       \/ \E n \in 0 .. U64_MAX :
            \/ BatchCharge(s, n)
            \/ \E new \in Accounts \cup {Contract} : RotateAdmin(s, new, n)

Spec == Init /\ [][Next]_vars

-------------------------------------------------------------------------------
(***************************************************************************)
(* nonce.rs: the calls of a signer in a domain take effect once each, in   *)
(* the order of their nonces and without gaps, also when the signer left   *)
(* the office and came back in between and whatever happened in the other  *)
(* domain.                                                                 *)
(***************************************************************************)
NoncesInOrder ==
  \A s \in Accounts, d \in Domains :
    \A k \in DOMAIN ran[s][d] : ran[s][d][k].nonce = k - 1

(***************************************************************************)
(* admin_authorization_matrix.md: the old administrator loses its powers   *)
(* at once.  Every call that took effect did so in a reign of its signer,  *)
(* and the calls of a signer follow the order of its reigns.               *)
(***************************************************************************)
ActedInOffice ==
  \A s \in Accounts, d \in Domains :
    \A k \in DOMAIN ran[s][d] :
      /\ ran[s][d][k].reign \in DOMAIN reigns
      /\ reigns[ran[s][d][k].reign] = s
      /\ \A j \in 1 .. k : ran[s][d][j].reign <= ran[s][d][k].reign

(***************************************************************************)
(* Of competing rotations of one reign exactly one ends it: each ended     *)
(* reign of a signer has one rotation of that signer, in order, so its     *)
(* rotation nonce counts its ended reigns.  The last reign, and only it,   *)
(* is the stored administrator's.                                          *)
(***************************************************************************)
ReignsEndOnce ==
  /\ \A i \in DOMAIN reigns :
       i < Len(reigns) => \E k \in DOMAIN ran[reigns[i]]["adm_rot"] :
                            ran[reigns[i]]["adm_rot"][k].reign = i
  /\ \A s \in Accounts :
       LET r == ran[s]["adm_rot"] IN
       \A k \in DOMAIN r :
         r[k].reign < Len(reigns) /\ \A j \in 1 .. (k - 1) : r[j].reign < r[k].reign
  /\ reigns # << >> => reigns[Len(reigns)] = admin
===============================================================================
