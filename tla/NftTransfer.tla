---------------------------- MODULE NftTransfer ----------------------------
(***************************************************************************)
(* NFTs moved between chains by x/ibc/nft-transfer, wrapped on each chain  *)
(* by the Move hooks of x/ibc-hooks and by the relayer permissions of      *)
(* x/ibc/perm: escrow and vouchers, class traces, acknowledgements,        *)
(* timeouts and refunds, the call a memo asks for at the receiver and the  *)
(* callback it asks for at the sender.  The ibc-go channel (commitments,   *)
(* receipts, timeouts), the Move object that is an NFT and the contracts   *)
(* called are external.  Every chain runs this code; channels are          *)
(* unordered, so packets are received, acknowledged and timed out in any   *)
(* order, and lost when nobody relays them in time.                        *)
(***************************************************************************)
EXTENDS Integers, Sequences, FiniteSets, SequencesExt, Functions

CONSTANTS
  Chains,
  Peer,                \* channel end -> the end it is connected to; an end is <<chain, id>>
  Users,
  Relayers,
  Home,                \* the NFTs and where they begin: a set of
                       \* [chain, class, id, owner, uri]
  NoUri,               \* the uri that is the empty string
  Memos,               \* the memos that occur: [call, cb], both BOOLEAN
  RelayerLists,        \* the lists of permissioned relayers that occur
  Governed,            \* the chains whose parameters and permissions change
  Budgets              \* bounds of a behaviour: [packets, hooked, gifts, changes, ids], how
                       \* many packets are sent and how many of them with a memo for the
                       \* hooks, how often an owner hands an NFT over, how often parameters
                       \* and permissions change or a chain restarts, and which NFTs travel

ASSUME TopologyAssumption ==
  /\ DOMAIN Peer \subseteq Chains \X STRING
  /\ \A e \in DOMAIN Peer : Peer[e] \in DOMAIN Peer /\ Peer[Peer[e]] = e
  /\ \A h \in Home : h.chain \in Chains /\ h.owner \in Users

VARIABLES
  store,               \* chain -> the state of its modules
  packets,             \* the packets of all channels, with the channel state about them
  budget               \* what is left of the budget

vars == <<store, packets, budget>>

(***************************************************************************)
(* Names.  A class id is the path of channel ids a voucher came through,   *)
(* nearest first, then the class id on the chain of origin; "ibc/{hash}"   *)
(* stands for the path one to one.                                         *)
(***************************************************************************)

User(u) == <<"user", u, "">>
GetEscrowAddress(ch) == <<"escrow", ch, "">>
DeriveIntermediateSender(ch, u) == <<"hook", ch, u>>
Function == <<"function", "", "">>     \* the receiver that names the function of the memo

Keys(class, ids) == {<<class, i>> : i \in ids}
IsVoucher(class) == Len(class) > 1

ReceiverChainIsSource(ch, class) == IsVoucher(class) /\ Head(class) = ch
SenderChainIsSource(ch, class) == ~ReceiverChainIsSource(ch, class)

(***************************************************************************)
(* The NFTs of one chain: <<class, id>> -> [owner, uri].                   *)
(***************************************************************************)

OwnedBy(nft, a, K) == K \subseteq DOMAIN nft /\ \A k \in K : nft[k].owner = a

Transfers(nft, to, K) ==
  [k \in DOMAIN nft |-> IF k \in K THEN [nft[k] EXCEPT !.owner = to] ELSE nft[k]]

Burns(nft, K) == Restrict(nft, DOMAIN nft \ K)

Mints(nft, to, class, uri) ==
  [k \in DOMAIN nft \cup Keys(class, DOMAIN uri) |->
     IF k \in DOMAIN nft THEN nft[k] ELSE [owner |-> to, uri |-> uri[k[2]]]]

(***************************************************************************)
(* Relayers and hooks of one chain.                                        *)
(***************************************************************************)

HasRelayerPermission(s, ch, r) == s.relayers[ch] = {} \/ r \in s.relayers[ch]

(* Whether the module of the hooked function or callback may be called. *)
GetAllowed(s) == IF s.acl = "unset" THEN s.defaultAllowed ELSE s.acl = "allowed"

Init ==
  /\ store = [c \in Chains |->
       LET mine == {h \in Home : h.chain = c} IN
       [nft            |-> [k \in {<<h.class, h.id>> : h \in mine} |->
                              LET h == CHOOSE h \in mine : k = <<h.class, h.id>>
                              IN [owner |-> User(h.owner), uri |-> h.uri]],
        traces         |-> {},          \* voucher classes with a ClassTrace and ClassData
        tokenData      |-> {},          \* <<class, id>> with TokenData
        callbacks      |-> {},          \* AsyncCallbacks: <<channel, sequence>>
        sendEnabled    |-> TRUE,
        receiveEnabled |-> TRUE,
        acl            |-> "unset",
        defaultAllowed |-> TRUE,
        admin          |-> [ch \in {e[2] : e \in DOMAIN Peer} |-> "none"],
        relayers       |-> [ch \in {e[2] : e \in DOMAIN Peer} |-> {}]]]
  /\ packets = {}
  /\ budget \in Budgets

(***************************************************************************)
(* Sending.                                                                *)
(***************************************************************************)

Source(p) == p.src[1]
Destination(p) == Peer[p.src][1]
Sent(e) == {p \in packets : p.src = e}

(* Escrow the tokens, or burn the vouchers that go back where they came from. *)
Leave(nft, ch, class, ids) ==
  IF SenderChainIsSource(ch, class)
  THEN Transfers(nft, GetEscrowAddress(ch), Keys(class, ids))
  ELSE Burns(nft, Keys(class, ids))

(* MsgTransfer.  The callback of the memo stays with the sender, under the sequence *)
(* the packet gets; the call of the memo travels with the packet. *)
Transfer(e, u, class, ids, to, memo) ==
  LET s == store[e[1]]
      K == Keys(class, ids)
      seq == Cardinality(Sent(e)) + 1
      hooked == memo.call \/ memo.cb
  IN
  /\ budget.packets > 0 /\ (hooked => budget.hooked > 0)
  /\ budget' = [budget EXCEPT !.packets = @ - 1, !.hooked = IF hooked THEN @ - 1 ELSE @]
  /\ s.sendEnabled
  /\ ids # {} /\ OwnedBy(s.nft, User(u), K)
  /\ IsVoucher(class) => class \in s.traces /\ K \subseteq s.tokenData
  /\ store' = [store EXCEPT
       ![e[1]].nft = Leave(@, e[2], class, ids),
       ![e[1]].callbacks = IF memo.cb THEN @ \cup {<<e[2], seq>>} ELSE @]
  /\ packets' = packets \cup
       {[src |-> e, seq |-> seq, class |-> class, uri |-> [i \in ids |-> s.nft[<<class, i>>].uri],
         sender |-> u, receiver |-> to, call |-> memo.call, cb |-> memo.cb,
         commit |-> TRUE, ack |-> "none", expired |-> FALSE,
         told |-> <<>>, dropped |-> FALSE]}

(* The owner gives an NFT to another account of the chain: a Move object transfer. *)
HandOver(c, k, u) ==
  /\ k[2] \in budget.ids
  /\ store[c].nft[k].owner \in {User(v) : v \in Users \ {u}}
  /\ budget.gifts > 0 /\ budget' = [budget EXCEPT !.gifts = @ - 1]
  /\ store' = [store EXCEPT ![c].nft[k].owner = User(u)]
  /\ UNCHANGED packets

(***************************************************************************)
(* Receiving.                                                              *)
(***************************************************************************)

Returns(p) == ReceiverChainIsSource(p.src[2], p.class)

(* The tokens of the packet as the chain they arrive at names them. *)
LocalClass(p) == IF Returns(p) THEN Tail(p.class) ELSE <<Peer[p.src][2]>> \o p.class
LocalKeys(p) == Keys(LocalClass(p), DOMAIN p.uri)

(* The application accepts the packet for the account: un-escrow or mint. *)
Accepts(s, p, to) ==
  /\ s.receiveEnabled
  /\ to # Function
  /\ IF Returns(p) THEN OwnedBy(s.nft, GetEscrowAddress(Peer[p.src][2]), LocalKeys(p))
                   ELSE LocalKeys(p) \cap DOMAIN s.nft = {}

(* Fault: token data only stored with the first token of a class. *)
OnRecvPacketClassOnce(s, p, to) ==
  IF Returns(p)
  THEN [s EXCEPT !.nft = Transfers(@, to, LocalKeys(p))]
  ELSE [s EXCEPT !.nft = Mints(@, to, LocalClass(p), p.uri),
                 !.traces = @ \cup {LocalClass(p)},
                 !.tokenData = IF LocalClass(p) \in s.traces THEN @ ELSE @ \cup LocalKeys(p)]

OnRecvPacket(s, p, to) ==
  IF Returns(p)
  THEN [s EXCEPT !.nft = Transfers(@, to, LocalKeys(p))]
  ELSE [s EXCEPT !.nft = Mints(@, to, LocalClass(p), p.uri),
                 !.traces = @ \cup {LocalClass(p)},
                 !.tokenData = @ \cup LocalKeys(p)]

(* The account the hooks put in the receiver's place when the memo has a call. *)
Receiver(p) ==
  IF p.call THEN DeriveIntermediateSender(Peer[p.src][2], p.sender) ELSE p.receiver

HookAccepts(s, p) == p.call => GetAllowed(s) /\ p.receiver = Function

(* The stores after a successful receive: the called function, run by the intermediate *)
(* account, keeps the tokens or gives them to a user. *)
Received(s, p) ==
  IF ~(HookAccepts(s, p) /\ Accepts(s, p, Receiver(p))) THEN {}
  ELSE LET t == OnRecvPacket(s, p, Receiver(p)) IN
       {t} \cup (IF p.call THEN {[t EXCEPT !.nft = Transfers(@, User(u), LocalKeys(p))] : u \in Users}
                           ELSE {})

Update(p, q) == packets' = (packets \ {p}) \cup {q}

(* A relayer submits the packet.  An error acknowledgement leaves no trace in the store: *)
(* the channel drops what the handlers wrote.  A relayer without permission makes the  *)
(* handler panic, which changes nothing. *)
RecvPacket(p, r) ==
  LET c == Destination(p) IN
  /\ p.ack = "none" /\ ~p.expired
  /\ HasRelayerPermission(store[c], Peer[p.src][2], r)
  /\ \/ \E s \in Received(store[c], p) :
          /\ store' = [store EXCEPT ![c] = s]
          /\ Update(p, [p EXCEPT !.ack = "ok"])
     \/ /\ p.call \/ Received(store[c], p) = {}
        /\ Update(p, [p EXCEPT !.ack = "error"])
        /\ UNCHANGED store
  /\ UNCHANGED budget

(* The time or height until which the packet may be received passes. *)
Expire(p) ==
  /\ p.ack = "none" /\ ~p.expired
  /\ Update(p, [p EXCEPT !.expired = TRUE])
  /\ UNCHANGED <<store, budget>>

(***************************************************************************)
(* Back at the sender.                                                     *)
(***************************************************************************)

(* GetBytes wrote no list of uris when all are empty, and the handlers of  *)
(* acknowledgements and timeouts read the packet without restoring it.     *)
(* The list of data stays: ConvertTokenDataToICS721 gives no empty string. *)
UrisDropped(p) == \A i \in DOMAIN p.uri : p.uri[i] = NoUri

(* Fault: nothing is un-escrowed while receiving is disabled. *)
RefundableWhenEnabled(s, p) ==
  LET K == Keys(p.class, DOMAIN p.uri) IN
  IF SenderChainIsSource(p.src[2], p.class)
  THEN s.receiveEnabled /\ OwnedBy(s.nft, GetEscrowAddress(p.src[2]), K)
  ELSE K \cap DOMAIN s.nft = {} /\ ~UrisDropped(p)

(* refundPacketToken succeeds; Mints indexes the list of uris for every token. *)
Refundable(s, p) ==
  LET K == Keys(p.class, DOMAIN p.uri) IN
  IF SenderChainIsSource(p.src[2], p.class)
  THEN OwnedBy(s.nft, GetEscrowAddress(p.src[2]), K)
  ELSE K \cap DOMAIN s.nft = {} /\ ~UrisDropped(p)

(* Fault: the refund goes to the address the packet was sent to. *)
refundToReceiver(s, p) ==
  IF SenderChainIsSource(p.src[2], p.class)
  THEN [s EXCEPT !.nft = Transfers(@, p.receiver, Keys(p.class, DOMAIN p.uri))]
  ELSE [s EXCEPT !.nft = Mints(@, p.receiver, p.class, p.uri)]

refundPacketToken(s, p) ==
  IF SenderChainIsSource(p.src[2], p.class)
  THEN [s EXCEPT !.nft = Transfers(@, User(p.sender), Keys(p.class, DOMAIN p.uri))]
  ELSE [s EXCEPT !.nft = Mints(@, User(p.sender), p.class, p.uri)]

(* Fault: the callback stays in the store after it ran. *)
AsyncCallbackKept(s, p, news, q) ==
  LET key == <<p.src[2], p.seq>> IN
  /\ store' = [store EXCEPT ![Source(p)] = s]
  /\ \/ Update(p, q)
     \/ /\ key \in s.callbacks /\ GetAllowed(s)
        /\ Update(p, [q EXCEPT !.told = Append(@, news)])

(* The hooks take the callback out of the store, then run it in a branch of the state *)
(* that is kept only when it is allowed and succeeds. *)
AsyncCallback(s, p, news, q) ==
  LET key == <<p.src[2], p.seq>> IN
  /\ store' = [store EXCEPT ![Source(p)] = [s EXCEPT !.callbacks = @ \ {key}]]
  /\ \/ Update(p, q)
     \/ /\ key \in s.callbacks /\ GetAllowed(s)
        /\ Update(p, [q EXCEPT !.told = Append(@, news)])

AcknowledgePacket(p) ==
  LET s == store[Source(p)] IN
  /\ p.commit /\ p.ack # "none"
  /\ p.ack = "error" => Refundable(s, p)
  /\ AsyncCallback(IF p.ack = "error" THEN refundPacketToken(s, p) ELSE s, p,
                   p.ack, [p EXCEPT !.commit = FALSE])
  /\ UNCHANGED budget

TimeoutPacket(p) ==
  LET s == store[Source(p)] IN
  /\ p.commit /\ p.expired
  /\ Refundable(s, p)
  /\ AsyncCallback(refundPacketToken(s, p), p, "timeout", [p EXCEPT !.commit = FALSE])
  /\ UNCHANGED budget

(***************************************************************************)
(* Parameters, permissions and restarts.                                   *)
(***************************************************************************)

Change == budget.changes > 0 /\ budget' = [budget EXCEPT !.changes = @ - 1]

UpdateParams(c, send, receive) ==
  /\ Change
  /\ store' = [store EXCEPT ![c].sendEnabled = send, ![c].receiveEnabled = receive]
  /\ UNCHANGED packets

UpdateHooks(c, default) ==
  /\ Change
  /\ store' = [store EXCEPT ![c].defaultAllowed = default]
  /\ UNCHANGED packets

UpdateACL(c, acl) ==
  /\ Change
  /\ store' = [store EXCEPT ![c].acl = acl]
  /\ UNCHANGED packets

(* The governance account, or the admin of the channel, may change admin and relayers. *)
MayAdminister(s, ch, by) == by \in {"authority", s.admin[ch]} /\ by # "none"

UpdateAdmin(e, by, admin) ==
  /\ Change
  /\ MayAdminister(store[e[1]], e[2], by)
  /\ store' = [store EXCEPT ![e[1]].admin[e[2]] = admin]
  /\ UNCHANGED packets

UpdatePermissionedRelayers(e, by, R) ==
  /\ Change
  /\ MayAdminister(store[e[1]], e[2], by)
  /\ store' = [store EXCEPT ![e[1]].relayers[e[2]] = R]
  /\ UNCHANGED packets

(* The chain is started anew from its exported state, which has the traces, data, ACLs, *)
(* parameters and channel states but no async callbacks. *)
Restart(c) ==
  /\ Change
  /\ store' = [store EXCEPT ![c].callbacks = {}]
  /\ packets' = {[p EXCEPT !.dropped = @ \/ (Source(p) = c /\ p.commit /\ p.cb)] : p \in packets}

Next ==
  \/ \E e \in DOMAIN Peer, u \in Users, memo \in Memos :
     \E k \in DOMAIN store[e[1]].nft, to \in {User(v) : v \in Users} \cup {Function} :
     \E ids \in SUBSET budget.ids :
        Transfer(e, u, k[1], ids, to, memo)
  \/ \E c \in Chains, u \in Users : \E k \in DOMAIN store[c].nft : HandOver(c, k, u)
  \/ \E p \in packets, r \in Relayers : RecvPacket(p, r)
  \/ \E p \in packets : Expire(p) \/ AcknowledgePacket(p) \/ TimeoutPacket(p)
  \/ \E c \in Governed, x, y \in BOOLEAN : UpdateParams(c, x, y)
  \/ \E c \in Governed, x \in BOOLEAN : UpdateHooks(c, x)
  \/ \E c \in Governed, x \in {"allowed", "denied"} : UpdateACL(c, x)
  \/ \E e \in DOMAIN Peer, by \in {"authority"} \cup Users :
        /\ e[1] \in Governed
        /\ \/ \E a \in Users : UpdateAdmin(e, by, a)
           \/ \E R \in RelayerLists : UpdatePermissionedRelayers(e, by, R)
  \/ \E c \in Governed : Restart(c)

(* Time passes on every chain, and somebody submits acknowledgements and timeouts: any    *)
(* account may, since the permissions of a channel restrict receiving only.               *)
Settle == \E p \in packets : Expire(p) \/ AcknowledgePacket(p) \/ TimeoutPacket(p)

Spec == Init /\ [][Next]_vars /\ WF_vars(Settle)

(***************************************************************************)
(* What the transfers promise.                                             *)
(***************************************************************************)

(* The chain a class comes from, by following the channels of its path. *)
OriginChain(c, class) == FoldLeft(LAMBDA d, ch : Peer[<<d, ch>>][1], c, Front(class))
Identity(c, k) == [chain |-> OriginChain(c, k[1]), class |-> Last(k[1]), id |-> k[2]]

Nft == {[chain |-> h.chain, class |-> Last(h.class), id |-> h.id] : h \in Home}

(* The tokens of a packet are neither with the sender nor with the receiver. *)
UnderWay(p) == p.commit /\ p.ack # "ok"
Cargo(p) == {Identity(Source(p), k) : k \in Keys(p.class, DOMAIN p.uri)}

Carriers(n) == {p \in packets : UnderWay(p) /\ n \in Cargo(p)}
Holdings(n) ==
  {x \in UNION {{<<c, k>> : k \in DOMAIN store[c].nft} : c \in Chains} :
     Identity(x[1], x[2]) = n /\ store[x[1]].nft[x[2]].owner[1] # "escrow"}

(* Where an NFT is; an NFT that is nowhere or in two places is no place of its own. *)
Place(n) ==
  IF Cardinality(Carriers(n)) + Cardinality(Holdings(n)) # 1
  THEN [chain |-> "none", owner |-> <<>>, ship |-> {}]
  ELSE IF Carriers(n) # {}
  THEN LET p == CHOOSE p \in Carriers(n) : TRUE IN
       [chain |-> Source(p), owner |-> User(p.sender),
        ship |-> {[key |-> <<p.src, p.seq>>, chain |-> Destination(p), to |-> p.receiver]}]
  ELSE LET x == CHOOSE x \in Holdings(n) : TRUE IN
       [chain |-> x[1], owner |-> store[x[1]].nft[x[2]].owner, ship |-> {}]

Places == [n \in Nft |-> Place(n)]

(* A channel's escrow holds exactly the tokens whose vouchers exist on the other side, in  *)
(* anyone's hands, or are on their way over the channel in either direction, and every     *)
(* voucher has the trace, class data and token data sendNftTransfer asks for, after a      *)
(* refund or a restart too: so every voucher can be sent back and nothing stays locked in  *)
(* escrow for nobody.                                                                      *)
VouchersRedeemable ==
  /\ \A e \in DOMAIN Peer :
       LET near == store[e[1]].nft
           far  == store[Peer[e][1]].nft
           out  == {p \in Sent(e) : UnderWay(p) /\ ~Returns(p)}
           back == {p \in Sent(Peer[e]) : UnderWay(p) /\ Returns(p)}
       IN {k \in DOMAIN near : near[k].owner = GetEscrowAddress(e[2])}
          = {<<Tail(k[1]), k[2]>> : k \in {j \in DOMAIN far : ReceiverChainIsSource(Peer[e][2], j[1])}}
            \cup UNION {Keys(p.class, DOMAIN p.uri) : p \in out}
            \cup UNION {LocalKeys(p) : p \in back}
  /\ \A c \in Chains : \A k \in DOMAIN store[c].nft :
       IsVoucher(k[1]) => k[1] \in store[c].traces /\ k \in store[c].tokenData

(* The sender's callback runs at most once, with the true outcome and only after it is   *)
(* settled; a callback is stored exactly for the packets that wait for one, unless the   *)
(* chain was restarted from exported state in between.                                   *)
CallbackTruthful ==
  /\ \A p \in packets :
       p.told # <<>> =>
         /\ Len(p.told) = 1 /\ ~p.commit /\ p.cb
         /\ Head(p.told) = IF p.expired THEN "timeout" ELSE p.ack
  /\ \A c \in Chains :
       store[c].callbacks =
         {<<p.src[2], p.seq>> : p \in {p \in packets : Source(p) = c /\ p.commit /\ p.cb /\ ~p.dropped}}

(* The channels drain: once no more is sent, every packet is settled in the end, delivered *)
(* or refunded, whoever may relay and whatever is disabled meanwhile.  The one exception   *)
(* is a voucher on its way back whose refund would mint tokens that all have an empty uri. *)
RefundPanics(p) == ~SenderChainIsSource(p.src[2], p.class) /\ UrisDropped(p)
ChannelsDrain == <>[](\A p \in packets : p.commit => RefundPanics(p))

(* "OnTimeoutPacket refunds the sender since the original packet sent was never received   *)
(* and has been timed out": when no more is sent, no packet stays timed out for ever       *)
(* without its refund.                                                                     *)
TimeoutRefunds == <>[](\A p \in packets : p.expired => ~p.commit)
=============================================================================
