---------------------------- MODULE NftOwnership ----------------------------
(***************************************************************************)
(* What a transfer of NFTs between chains promises, without channels,      *)
(* vouchers or packets: every NFT is in one place, held by an account on   *)
(* one chain or on its way in one shipment, and a shipment arrives whole   *)
(* with the account it is addressed to or comes back whole to the account  *)
(* that sent it.                                                           *)
(***************************************************************************)
CONSTANTS
  Nft,                 \* the NFTs, by the chain, class and id they were created with
  Chain, Account,
  Contract,            \* the address of a shipment whose receiver a contract decides
  Shipment,            \* the names of shipments
  FirstHolder          \* Nft -> place: where the NFTs are in the beginning

VARIABLE at            \* Nft -> [chain, owner, ship]: ship is {} for an NFT that is held
                       \* and {[key, chain, to]} for one under way, when chain and owner
                       \* are where it left

Init == at = FirstHolder

Ships == UNION {at[n].ship : n \in Nft}
Aboard(s) == {n \in Nft : at[n].ship = {s}}

(* The holder gives an NFT to another account of the same chain. *)
Give(n, a) ==
  /\ at[n].ship = {}
  /\ at' = [at EXCEPT ![n].owner = a]

(* One holder sends some of its NFTs to an account, or a contract, of a chain. *)
Depart(S) ==
  /\ \A n \in S : at[n].ship = {}
  /\ \A n, m \in S : at[n].chain = at[m].chain /\ at[n].owner = at[m].owner
  /\ \E s \in UNION {at'[n].ship : n \in S} :
       /\ s.key \in Shipment \ {t.key : t \in Ships}
       /\ s.chain \in Chain /\ s.to \in Account \cup {Contract}
       /\ at' = [n \in Nft |-> IF n \in S THEN [at[n] EXCEPT !.ship = {s}] ELSE at[n]]

(* All of a shipment is handed to the account it names. *)
Arrive(s, a) ==
  /\ s.to \in {a, Contract}
  /\ at' = [n \in Nft |-> IF n \in Aboard(s)
              THEN [chain |-> s.chain, owner |-> a, ship |-> {}] ELSE at[n]]

(* All of a shipment is back with the account that sent it. *)
Return(s) ==
  at' = [n \in Nft |-> IF n \in Aboard(s) THEN [at[n] EXCEPT !.ship = {}] ELSE at[n]]

Next ==
  \/ \E n \in Nft, a \in Account : Give(n, a)
  \/ \E S \in SUBSET Nft : Depart(S)
  \/ \E s \in Ships : Return(s) \/ \E a \in Account : Arrive(s, a)

Spec == Init /\ [][Next]_at
=============================================================================
