------------------------------- MODULE MCNft -------------------------------
(* Three chains in a line: A and B are joined by their channels "c0", B and C by B's "c1" *)
(* and C's "c0", so that one channel id names different channels on different chains.     *)
EXTENDS NftTransfer

MCChains == {"A", "B", "C"}
MCPeer == [e \in {<<"A", "c0">>, <<"B", "c0">>, <<"B", "c1">>, <<"C", "c0">>} |->
             CASE e = <<"A", "c0">> -> <<"B", "c0">>
               [] e = <<"B", "c0">> -> <<"A", "c0">>
               [] e = <<"B", "c1">> -> <<"C", "c0">>
               [] e = <<"C", "c0">> -> <<"B", "c1">>]
MCHome == {[chain |-> "A", class |-> <<"art">>, id |-> 1, owner |-> "u", uri |-> ""],
           [chain |-> "A", class |-> <<"art">>, id |-> 2, owner |-> "u", uri |-> "x"]}
MCLists == {{}, {"r"}, {"gone"}}
MCBudgets ==
  {[packets |-> 4, hooked |-> 0, gifts |-> 0, changes |-> 0, ids |-> {2}],
   [packets |-> 3, hooked |-> 0, gifts |-> 0, changes |-> 0, ids |-> {1, 2}],
   [packets |-> 2, hooked |-> 2, gifts |-> 0, changes |-> 0, ids |-> {1, 2}],
   [packets |-> 2, hooked |-> 1, gifts |-> 0, changes |-> 1, ids |-> {2}],
   [packets |-> 1, hooked |-> 1, gifts |-> 1, changes |-> 2, ids |-> {1}]}
MCOneReturn == {[packets |-> 2, hooked |-> 0, gifts |-> 0, changes |-> 0, ids |-> {1}]}
MCMemos == [call : BOOLEAN, cb : BOOLEAN]

VARIABLE at            \* history: where every NFT is, by the chains' stores and packets

MCInit == Init /\ at = Places
MCNext == Next /\ at' = Places'
MCSpec == MCInit /\ [][MCNext]_<<vars, at>> /\ WF_vars(Settle)

Ownership == INSTANCE NftOwnership WITH
  Chain <- Chains,
  Account <- {User(u) : u \in Users} \cup
             {DeriveIntermediateSender(e[2], u) : e \in DOMAIN Peer, u \in Users},
  Contract <- Function,
  Shipment <- (DOMAIN Peer) \X (1..4),
  FirstHolder <- [n \in Nft |->
    LET h == CHOOSE h \in Home : n = [chain |-> h.chain, class |-> Last(h.class), id |-> h.id]
    IN [chain |-> h.chain, owner |-> User(h.owner), ship |-> {}]]

(* Across any number of channels, vouchers, refused and timed out packets, every NFT has *)
(* exactly one holder or one packet that carries it: what sendNftTransfer, OnRecvPacket  *)
(* and refundPacketToken do on the chains together implements NftOwnership.              *)
OneHolder == Ownership!Spec
=============================================================================
