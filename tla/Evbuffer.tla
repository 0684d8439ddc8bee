------------------------------ MODULE Evbuffer ------------------------------
(***************************************************************************)
(* The evbuffer (buffer.c): a byte queue kept as a list of chains.  A      *)
(* chain shows a window of a block of memory; blocks are owned by one      *)
(* chain, lent by the application (evbuffer_add_reference) or shared with  *)
(* the chain of another buffer (evbuffer_add_buffer_reference).            *)
(*                                                                         *)
(* Every call runs under the buffer's lock, so a call is one step.  The    *)
(* calls are written as operators from a state s = [buf, ch] to the state  *)
(* that they leave, because they call each other.  Memory is a pool of     *)
(* chains: an allocation fails when the pool is empty.  Pinned chains      *)
(* (overlapped I/O on Windows) and file segments are not modelled.         *)
(***************************************************************************)
EXTENDS Integers, Sequences, SequencesExt, FiniteSets, FiniteSetsExt

CONSTANTS
  Buffers,       \* the evbuffers of the application
  Slots,         \* addresses of chains: numbers
  NULL, Junk,    \* no chain; a byte of memory that no chain shows
  CR, LF,        \* the bytes '\r' and '\n'
  Inputs,        \* the data the application adds
  MinBufferSize, \* MIN_BUFFER_SIZE
  ChainSize,     \* EVBUFFER_CHAIN_SIZE
  MaxAutoSize,   \* EVBUFFER_CHAIN_MAX_AUTO_SIZE
  MaxToCopy, MaxToRealign,   \* MAX_TO_COPY_IN_EXPAND, MAX_TO_REALIGN_IN_EXPAND
  NumReadIovec,  \* NUM_READ_IOVEC
  PrintfSpace,   \* what evbuffer_add_vprintf asks for first
  MaxLen,        \* bound: how long a buffer gets
  MaxCalls,      \* bound: how many calls are made
  MaxSettings,   \* bound: how many calls change a buffer's settings
  Sizes,         \* the lengths that calls are given
  FaultyCalls    \* which of the calls with a known fault (see Faults) are made

Callbacks == {"plain", "nodefer"}   \* a callback, and one with EVBUFFER_CB_NODEFER
Faults == {"reference_to_empty_chain", "pullup_shared", "out_of_memory_move"}

ASSUME EvbufferAssumption ==
  /\ IsFiniteSet(Buffers) /\ IsFiniteSet(Slots) /\ Slots \subseteq Nat \ {0}
  /\ Buffers \cap Slots = {} /\ NULL \notin Buffers \cup Slots
  /\ MinBufferSize > ChainSize /\ ChainSize >= 0 /\ NumReadIovec >= 2
  /\ FaultyCalls \subseteq Faults

VARIABLES
  buf,     \* the evbuffers; NULL: not allocated
  ch,      \* the chains; NULL: not allocated
  fault,   \* a freed chain has been used
  calls,   \* bound: the calls made so far
  settings \* bound: the changes of settings made so far

vars == <<buf, ch, fault, calls, settings>>

\* struct evbuffer_chain.  mem is the chain whose block buffer points into; cells is that
\* block, kept with the chain that owns it.
NewChain(c, len) ==
  [mem |-> c, cells |-> [i \in 1..len |-> Junk], buffer_len |-> len, misalign |-> 0, off |-> 0,
   immutable |-> FALSE, multicast |-> FALSE, parent |-> NULL, source |-> NULL, refcnt |-> 1]

\* struct evbuffer.  last_with_datap is b for &b->first and c for &c->next.  held: the
\* application has not called evbuffer_free; pending: the deferred callback is scheduled;
\* told: the size that each callback was given last, or had to start from.
evbuffer_new_(b) ==
  [chains |-> << >>, last |-> NULL, last_with_datap |-> b, total_len |-> 0,
   n_add_for_cb |-> 0, n_del_for_cb |-> 0, freeze_start |-> FALSE, freeze_end |-> FALSE,
   refcnt |-> 1, deferred_cbs |-> FALSE, pending |-> FALSE, held |-> TRUE,
   callbacks |-> {}, enabled |-> {}, told |-> [k \in Callbacks |-> NULL]]

------------------------------------------------------------------------------
(* Chains.                                                                 *)

CHAIN_SPACE_LEN(k) == IF k.immutable THEN 0 ELSE k.buffer_len - (k.misalign + k.off)
CHAIN_SPACE_PTR(k) == <<k.mem, k.misalign + k.off>>

\* the buffer_len that evbuffer_chain_new gives a chain for size bytes
ChainLen(size) ==
  Min({n \in {MinBufferSize * 2^i : i \in 0..size} : n >= size + ChainSize}) - ChainSize

CanAlloc(s) == \E c \in Slots : s.ch[c] = NULL
Fresh(s) == CHOOSE c \in Slots : s.ch[c] = NULL /\ \A d \in Slots : s.ch[d] = NULL => c <= d

evbuffer_chain_new(s, size) ==
  [s EXCEPT !.ch[Fresh(s)] = NewChain(Fresh(s), ChainLen(size))]

\* the bytes a chain shows, and those of a list of chains
Window(s, c) ==
  LET k == s.ch[c] IN SubSeq(s.ch[k.mem].cells, k.misalign + 1, k.misalign + k.off)
Bytes(s, list) ==
  LET f[i \in 0..Len(list)] == IF i = 0 THEN << >> ELSE f[i - 1] \o Window(s, list[i]) IN f[Len(list)]
Content(s, b) == Bytes(s, s.buf[b].chains)
SumOff(s, list) ==
  LET f[i \in 0..Len(list)] == IF i = 0 THEN 0 ELSE f[i - 1] + s.ch[list[i]].off IN f[Len(list)]

\* memcpy of data to the given position of the block of chain c
Write(s, c, pos, data) ==
  LET m == s.ch[c].mem IN
  [s EXCEPT !.ch[m].cells =
     [i \in DOMAIN @ |-> IF i \in pos + 1..pos + Len(data) THEN data[i - pos] ELSE @[i]]]

\* data is put behind the data of chain c
Append_(s, c, data) ==
  [Write(s, c, s.ch[c].misalign + s.ch[c].off, data) EXCEPT !.ch[c].off = @ + Len(data)]

\* Blocks are read only where a chain shows them; the rest is forgotten.
Forget(C) ==
  LET Shown(m, i) == \E c \in Slots : C[c] # NULL /\ C[c].mem = m
                                      /\ i \in C[c].misalign + 1..C[c].misalign + C[c].off
  IN [m \in Slots |-> IF C[m] = NULL THEN NULL
                      ELSE [C[m] EXCEPT !.cells = [i \in DOMAIN @ |-> IF Shown(m, i) THEN @[i] ELSE Junk]]]

Drop(s, c) ==
  IF s.ch[c].refcnt > 1 THEN [s EXCEPT !.ch[c].refcnt = @ - 1] ELSE [s EXCEPT !.ch[c] = NULL]

\* Mutant: the chain that a freed chain refers to is released without its evbuffer.
chain_free_keeps_source(s, c) ==
  LET k == s.ch[c] IN IF k.refcnt > 1 \/ ~k.multicast THEN Drop(s, c) ELSE Drop(Drop(s, c), k.parent)

\* One chain.  A referenced chain is never a reference itself, so its parent is just dropped.
evbuffer_chain_free(s, c) ==
  LET k == s.ch[c]
  IN IF k.refcnt > 1 \/ ~k.multicast THEN Drop(s, c)
     ELSE [Drop(Drop(s, c), k.parent) EXCEPT !.buf[k.source].refcnt = @ - 1]

\* The end of evbuffer_decref_and_unlock_ for a buffer whose last reference is gone; freeing
\* its chains may release another buffer.
Destroy(s) ==
  LET dead == {b \in Buffers : s.buf[b] # NULL /\ s.buf[b].refcnt = 0}
      b == CHOOSE x \in dead : TRUE
  IN IF dead = {} THEN s
     ELSE [FoldLeft(evbuffer_chain_free, s, s.buf[b].chains) EXCEPT !.buf[b] = NULL]

Reap(s) == FoldLeft(LAMBDA t, i : Destroy(t), s, [i \in 1..Cardinality(Buffers) |-> i])

evbuffer_free_all_chains(s, list) == Reap(FoldLeft(evbuffer_chain_free, s, list))

------------------------------------------------------------------------------
(* Lists of chains.                                                        *)

\* where in the list *last_with_datap is; one past the end: NULL
LastWithData(s, b) ==
  LET B == s.buf[b]
  IN IF B.last_with_datap = b THEN 1
     ELSE SelectInSeq(B.chains, LAMBDA c : c = B.last_with_datap) + 1

\* the pointer to the i-th chain: the address of the next field before it
PointerTo(b, list, i) == IF i = 1 THEN b ELSE list[i - 1]

Nth(list, i) == IF i \in DOMAIN list THEN list[i] ELSE NULL

\* where a walk over the chains that uses up n bytes stops: the first chain that has more
Walk(s, list, n) ==
  Min({j \in 1..Len(list) : SumOff(s, SubSeq(list, 1, j)) > n} \cup {Len(list) + 1})

evbuffer_free_trailing_empty_chains(s, b) ==
  LET L == s.buf[b].chains
      j == Min({i \in LastWithData(s, b)..Len(L) : s.ch[L[i]].off = 0} \cup {Len(L) + 1})
  IN [evbuffer_free_all_chains(s, SubSeq(L, j, Len(L))) EXCEPT !.buf[b].chains = SubSeq(L, 1, j - 1)]

\* Mutant: last_with_datap is moved to a chain without data.
put_moves_datap(s, b, c) ==
  LET L == s.buf[b].chains
  IN [s EXCEPT !.buf[b].chains = Append(L, c), !.buf[b].last = c,
               !.buf[b].last_with_datap = PointerTo(b, L, Len(L) + 1),
               !.buf[b].total_len = @ + s.ch[c].off]

PutLast(s, b, c) ==
  LET L == s.buf[b].chains
  IN [s EXCEPT !.buf[b].chains = Append(L, c), !.buf[b].last = c,
               !.buf[b].last_with_datap = IF s.ch[c].off > 0 THEN PointerTo(b, L, Len(L) + 1) ELSE @,
               !.buf[b].total_len = @ + s.ch[c].off]

evbuffer_chain_insert(s, b, c) ==
  PutLast(IF Nth(s.buf[b].chains, LastWithData(s, b)) = NULL THEN s
          ELSE evbuffer_free_trailing_empty_chains(s, b), b, c)

advance_last_with_data(s, b) ==
  LET L == s.buf[b].chains
      full == {i \in LastWithData(s, b) + 1..Len(L) : s.ch[L[i]].off > 0}
  IN IF full = {} THEN s
     ELSE [s EXCEPT !.buf[b].last_with_datap = PointerTo(b, L, Max(full))]

ZERO_CHAIN(s, b) ==
  [s EXCEPT !.buf[b].chains = << >>, !.buf[b].last = NULL, !.buf[b].last_with_datap = b,
            !.buf[b].total_len = 0]

Count(s, b, added, deleted) ==
  [s EXCEPT !.buf[b].n_add_for_cb = @ + added, !.buf[b].n_del_for_cb = @ + deleted]

Grow(s, b, n) == [Count(s, b, n, 0) EXCEPT !.buf[b].total_len = @ + n]

------------------------------------------------------------------------------
(* Callbacks.                                                              *)

Enabled(B) == B.callbacks \cap B.enabled

\* info.orig_size: the size that the next report starts from
OrigSize(B) == B.total_len + B.n_del_for_cb - B.n_add_for_cb

\* Mutant: the counters are also cleared when only the callbacks that are not deferred run.
clears_always(B, running_deferred) == TRUE

ClearsCounters(B, running_deferred) == running_deferred \/ ~B.deferred_cbs \/ B.callbacks = {}

\* What a callback is told: it began at total_len + n_del - n_add and now has total_len bytes.
evbuffer_run_callbacks(s, b, running_deferred) ==
  LET B == s.buf[b]
      called == IF running_deferred THEN Enabled(B) \ {"nodefer"}
                ELSE IF B.deferred_cbs THEN Enabled(B) \cap {"nodefer"} ELSE Enabled(B)
      cleared == IF ClearsCounters(B, running_deferred)
                 THEN [s EXCEPT !.buf[b].n_add_for_cb = 0, !.buf[b].n_del_for_cb = 0] ELSE s
  IN IF B.callbacks = {} \/ (B.n_add_for_cb = 0 /\ B.n_del_for_cb = 0) THEN cleared
     ELSE [cleared EXCEPT !.buf[b].told =
             [k \in Callbacks |-> IF k \in called THEN B.total_len ELSE @[k]]]

evbuffer_invoke_callbacks_(s, b) ==
  LET B == s.buf[b]
      t == IF B.callbacks # {} /\ B.deferred_cbs /\ ~B.pending
           THEN [s EXCEPT !.buf[b].pending = TRUE, !.buf[b].refcnt = @ + 1] ELSE s
  IN evbuffer_run_callbacks(t, b, FALSE)

\* Mutant: the last reference goes and the buffer stays.
decref_without_free(s, b) == [s EXCEPT !.buf[b].refcnt = @ - 1]

evbuffer_decref_and_unlock_(s, b) == Reap([s EXCEPT !.buf[b].refcnt = @ - 1])

------------------------------------------------------------------------------
(* Adding data.  Calls that can fail give [ok, s].                         *)

Done(s) == [ok |-> TRUE, s |-> s]
Fail(s) == [ok |-> FALSE, s |-> s]

evbuffer_chain_should_realign(k, datlen) ==
  k.buffer_len - k.off >= datlen /\ k.off < k.buffer_len \div 2 /\ k.off <= MaxToRealign

evbuffer_chain_align(s, c) ==
  [Write(s, c, 0, Window(s, c)) EXCEPT !.ch[c].misalign = 0]

\* data goes into chain c, what does not fit into a new chain behind it
AddTo(s, b, c, data) ==
  LET k == s.ch[c]
      datlen == Len(data)
      remain == CHAIN_SPACE_LEN(k)
      twice == IF k.buffer_len <= MaxAutoSize \div 2 THEN 2 * k.buffer_len ELSE k.buffer_len
      rest == SubSeq(data, remain + 1, datlen)
      n == Fresh(s)
      t == Append_(Grow(s, b, remain), c, SubSeq(data, 1, remain))
      u == Append_(evbuffer_chain_new(t, Max({datlen, twice})), n, rest)
  IN IF ~k.immutable /\ remain >= datlen THEN Done(Append_(Grow(s, b, datlen), c, data))
     ELSE IF ~k.immutable /\ evbuffer_chain_should_realign(k, datlen)
     THEN Done(Append_(evbuffer_chain_align(Grow(s, b, datlen), c), c, data))
     ELSE IF ~CanAlloc(s) THEN Fail(s)
     ELSE Done(Count(evbuffer_chain_insert(u, b, n), b, Len(rest), 0))

\* the end of a call: the callbacks run if it has succeeded
Finish(r, b) == IF r.ok THEN Done(evbuffer_invoke_callbacks_(r.s, b)) ELSE r

evbuffer_add_(s, b, data) ==
  LET B == s.buf[b]
      lwd == Nth(B.chains, LastWithData(s, b))
      c == IF lwd = NULL THEN B.last ELSE lwd
      empty == c = NULL
      n == Fresh(s)
  IN IF B.freeze_end \/ (empty /\ ~CanAlloc(s)) THEN Fail(s)
     ELSE Finish(AddTo(IF empty THEN evbuffer_chain_insert(evbuffer_chain_new(s, Len(data)), b, n) ELSE s,
                       b, IF empty THEN n ELSE c, data), b)

\* Mutant: the front of the data goes before the old data and its end before that.
split_swaps_parts(data, fit) == [rest |-> SubSeq(data, fit + 1, Len(data)), end |-> SubSeq(data, 1, fit)]

\* the end of the data, for which there is room, and the rest
SplitPrepend(data, fit) ==
  [rest |-> SubSeq(data, 1, Len(data) - fit), end |-> SubSeq(data, Len(data) - fit + 1, Len(data))]

\* what is left of the data goes into a new chain before chain c
PrependNew(s, b, c, rest) ==
  LET n == Fresh(s)
      len == ChainLen(Len(rest))
      k == [NewChain(n, len) EXCEPT !.misalign = len - Len(rest), !.off = Len(rest),
                                    !.cells = [i \in 1..len |-> IF i > len - Len(rest) THEN rest[i - len + Len(rest)] ELSE Junk]]
  IN IF rest = << >> THEN Done(s)
     ELSE IF ~CanAlloc(s) THEN Fail(s)
     ELSE Done([Grow(s, b, Len(rest)) EXCEPT
            !.ch[n] = k, !.buf[b].chains = <<n>> \o @,
            !.buf[b].last_with_datap = IF @ = b /\ s.ch[c].off > 0 THEN n ELSE @])

\* The front of a buffer whose first chain is c: what fits goes before the data of c.
PrependTo(s, b, c, data) ==
  LET k == s.ch[c]
      room == IF k.off = 0 THEN k.buffer_len ELSE k.misalign
      fit == Min({room, Len(data)})
      split == SplitPrepend(data, fit)
  IN IF k.immutable THEN PrependNew(s, b, c, data)
     ELSE PrependNew([Write(Grow(s, b, fit), c, room - fit, split.end) EXCEPT
                        !.ch[c].off = @ + fit, !.ch[c].misalign = room - fit], b, c, split.rest)

evbuffer_prepend_(s, b, data) ==
  LET L == s.buf[b].chains
      n == Fresh(s)
  IN IF data = << >> THEN Done(s)
     ELSE IF s.buf[b].freeze_start \/ (L = << >> /\ ~CanAlloc(s)) THEN Fail(s)
     ELSE Finish(PrependTo(IF L = << >> THEN evbuffer_chain_insert(evbuffer_chain_new(s, Len(data)), b, n) ELSE s,
                           b, IF L = << >> THEN n ELSE L[1], data), b)

\* evbuffer_add_reference: the block belongs to the application
evbuffer_add_reference_(s, b, data) ==
  LET n == Fresh(s)
      k == [NewChain(n, Len(data)) EXCEPT !.immutable = TRUE, !.cells = data, !.off = Len(data)]
  IN IF ~CanAlloc(s) \/ s.buf[b].freeze_end THEN Fail(s)
     ELSE Done(evbuffer_invoke_callbacks_(
            Count(evbuffer_chain_insert([s EXCEPT !.ch[n] = k], b, n), b, Len(data), 0), b))

------------------------------------------------------------------------------
(* Making room.  [c, s]: the chain that has it, NULL if there is none.     *)

\* insert_new of evbuffer_expand_singlechain
InsertNew(s, b, datlen) ==
  IF ~CanAlloc(s) THEN [c |-> NULL, s |-> s]
  ELSE [c |-> Fresh(s), s |-> evbuffer_chain_insert(evbuffer_chain_new(s, datlen), b, Fresh(s))]

\* chain c, the i-th, is replaced by a larger copy
Resize(s, b, i, datlen) ==
  LET c == s.buf[b].chains[i]
      n == Fresh(s)
      t == Append_(evbuffer_chain_new(s, s.ch[c].off + datlen), n, Window(s, c))
  IN IF ~CanAlloc(s) THEN [c |-> NULL, s |-> s]
     ELSE [c |-> n,
           s |-> evbuffer_chain_free([t EXCEPT !.buf[b].chains[i] = n,
                                               !.buf[b].last = IF @ = c THEN n ELSE @], c)]

evbuffer_expand_singlechain(s, b, datlen) ==
  LET L == s.buf[b].chains
      w == LastWithData(s, b)
      i == IF w <= Len(L) /\ CHAIN_SPACE_LEN(s.ch[L[w]]) = 0 THEN w + 1 ELSE w
      c == Nth(L, i)
      next == Nth(L, i + 1)
      k == s.ch[c]
      writable == c # NULL /\ ~k.immutable
      copy == CHAIN_SPACE_LEN(k) >= k.buffer_len \div 8 /\ k.off <= MaxToCopy
  IN IF writable /\ CHAIN_SPACE_LEN(k) >= datlen THEN [c |-> c, s |-> s]
     ELSE IF ~writable \/ k.off = 0 THEN InsertNew(s, b, datlen)
     ELSE IF evbuffer_chain_should_realign(k, datlen) THEN [c |-> c, s |-> evbuffer_chain_align(s, c)]
     ELSE IF copy THEN Resize(s, b, i, datlen)
     ELSE IF next # NULL /\ CHAIN_SPACE_LEN(s.ch[next]) >= datlen THEN [c |-> next, s |-> s]
     ELSE InsertNew(s, b, datlen)

\* Room in the last chains, as the loop of evbuffer_expand_fast_ counts it: an empty chain
\* counts in full.
FastSpace(k) == IF k.off > 0 THEN CHAIN_SPACE_LEN(k) ELSE k.buffer_len
Avail(s, list) == FoldLeft(LAMBDA acc, c : acc + FastSpace(s.ch[c]), 0, list)
Used(s, list) == Len(SelectSeq(list, LAMBDA c : s.ch[c].off = 0 \/ FastSpace(s.ch[c]) > 0))

\* the empty chains of the list are realigned
Realign(s, list) ==
  [s EXCEPT !.ch = [c \in Slots |-> IF c \in Range(list) /\ s.ch[c].off = 0
                                    THEN [s.ch[c] EXCEPT !.misalign = 0] ELSE s.ch[c]]]

\* a chain for size bytes is put behind the last one, and nothing is freed
Extend(s, b, size) ==
  LET n == Fresh(s)
  IN IF ~CanAlloc(s) THEN Fail(s)
     ELSE Done([evbuffer_chain_new(s, size) EXCEPT !.buf[b].chains = Append(@, n), !.buf[b].last = n])

\* the last n chains do not have enough: the empty ones are replaced by one
Replace(s, b, datlen) ==
  LET L == s.buf[b].chains
      w == LastWithData(s, b)
      all == s.ch[L[w]].off = 0
      keep == SubSeq(L, 1, IF all THEN w - 1 ELSE w)
      avail == IF all THEN 0 ELSE CHAIN_SPACE_LEN(s.ch[L[w]])
      t == evbuffer_free_all_chains(s, SubSeq(L, Len(keep) + 1, Len(L)))
      u == [t EXCEPT !.buf[b].chains = keep, !.buf[b].last = Nth(keep, Len(keep)),
                     !.buf[b].last_with_datap = IF all THEN b ELSE @]
  IN Extend(u, b, datlen - avail)

evbuffer_expand_fast_(s, b, datlen, n) ==
  LET B == s.buf[b]
      tail == SubSeq(B.chains, LastWithData(s, b), Len(B.chains))
      First(m) == SubSeq(tail, 1, m)
      enough == {m \in 1..Len(tail) : Avail(s, First(m)) >= datlen}
      full == {m \in 1..Len(tail) : Used(s, First(m)) = n}
      stop == Min(enough \cup full \cup {Len(tail)})
      t == Realign(s, First(stop))
  IN IF B.last = NULL \/ s.ch[B.last].immutable
     THEN IF CanAlloc(s) THEN Done(InsertNew(s, b, datlen).s) ELSE Fail(s)
     ELSE IF stop \in enough THEN Done(t)
     ELSE IF stop \in full THEN Replace(t, b, datlen)
     ELSE Extend(t, b, datlen - Avail(s, tail))

\* evbuffer_read_setup_vecs_: the extents to write into, from the first chain with room; [c]
\* is the chain, ptr and len the iovec.  At least howmuch bytes unless it is exact.
evbuffer_read_setup_vecs_(s, b, howmuch, n, exact) ==
  LET L == s.buf[b].chains
      w == LastWithData(s, b)
      i == IF CHAIN_SPACE_LEN(s.ch[L[w]]) = 0 THEN w + 1 ELSE w
      Space(j) == CHAIN_SPACE_LEN(s.ch[L[j]])
      Before(j) == FoldLeft(LAMBDA acc, c : acc + CHAIN_SPACE_LEN(s.ch[c]), 0, SubSeq(L, i, j - 1))
      used == {j \in i..Min({Len(L), i + n - 1}) : Before(j) < howmuch}
  IN [j \in 1..Cardinality(used) |->
        [c |-> L[i + j - 1], ptr |-> CHAIN_SPACE_PTR(s.ch[L[i + j - 1]]),
         len |-> IF exact THEN Min({Space(i + j - 1), howmuch - Before(i + j - 1)})
                 ELSE Space(i + j - 1)]]

\* The application (or readv) fills the extents with data: the extents it used, and how far.
Fill(s, vec, data) ==
  LET Start(j) == FoldLeft(LAMBDA acc, v : acc + v.len, 0, SubSeq(vec, 1, j - 1))
      Part(j) == SubSeq(data, Start(j) + 1, Min({Len(data), Start(j) + vec[j].len}))
      used == {j \in DOMAIN vec : Start(j) < Len(data)}
  IN [vec |-> [j \in 1..Cardinality(used) |-> [vec[j] EXCEPT !.len = Len(Part(j))]],
      s |-> FoldLeft(LAMBDA t, j : Write(t, vec[j].c, vec[j].ptr[2], Part(j)), s, [j \in 1..Cardinality(used) |-> j])]

\* off grows by what an extent was used for
Take(s, vec) == FoldLeft(LAMBDA t, v : [t EXCEPT !.ch[v.c].off = @ + v.len], s, vec)

evbuffer_commit_space_(s, b, vec) ==
  LET B == s.buf[b]
      L == B.chains
      added == FoldLeft(LAMBDA acc, v : acc + v.len, 0, vec)
      w == LastWithData(s, b)
      i == IF CHAIN_SPACE_LEN(s.ch[L[w]]) = 0 THEN w + 1 ELSE w
      Matches(v, c) == /\ c # NULL
                       /\ v.ptr = CHAIN_SPACE_PTR(s.ch[c]) /\ v.len <= CHAIN_SPACE_LEN(s.ch[c])
      at == {j \in DOMAIN vec : vec[j].len > 0}
      Committed(t) == Done(evbuffer_invoke_callbacks_(Grow(t, b, added), b))
  IN IF B.freeze_end THEN Fail(s)
     ELSE IF vec = << >> THEN Done(s)
     ELSE IF B.last = NULL THEN Fail(s)
     ELSE IF Len(vec) = 1 /\ vec[1].ptr = CHAIN_SPACE_PTR(s.ch[B.last])
     THEN IF vec[1].len > CHAIN_SPACE_LEN(s.ch[B.last]) THEN Fail(s)
          ELSE LET t == [s EXCEPT !.ch[B.last].off = @ + added]
               IN Committed(IF added > 0 THEN advance_last_with_data(t, b) ELSE t)
     ELSE IF \E j \in DOMAIN vec : ~Matches(vec[j], Nth(L, i + j - 1)) THEN Fail(s)
     ELSE Committed([Take(s, vec) EXCEPT !.buf[b].last_with_datap =
                       IF at = {} THEN @ ELSE PointerTo(b, L, i + Max(at) - 1)])

\* evbuffer_reserve_space: [vec, s]; no extent on failure.  With one extent r is [c, s], with
\* more it is [ok, s].
ReserveOne(r) ==
  [s |-> r.s,
   vec |-> IF r.c = NULL THEN << >>
           ELSE <<[c |-> r.c, ptr |-> CHAIN_SPACE_PTR(r.s.ch[r.c]), len |-> CHAIN_SPACE_LEN(r.s.ch[r.c])]>>]
ReserveMany(r, b, size, n_vecs) ==
  [s |-> r.s, vec |-> IF r.ok THEN evbuffer_read_setup_vecs_(r.s, b, size, n_vecs, FALSE) ELSE << >>]

evbuffer_reserve_space_(s, b, size, n_vecs) ==
  IF s.buf[b].freeze_end THEN [vec |-> << >>, s |-> s]
  ELSE IF n_vecs = 1 THEN ReserveOne(evbuffer_expand_singlechain(s, b, size))
  ELSE ReserveMany(evbuffer_expand_fast_(s, b, size, n_vecs), b, size, n_vecs)

------------------------------------------------------------------------------
(* Removing and moving data.                                               *)

\* The part of evbuffer_drain that leaves some data: whole chains, then the front of one.
DrainFront(s, b, len) ==
  LET L == s.buf[b].chains
      j == Walk(s, L, len)
      gone == SubSeq(L, 1, j - 1)
      rest == len - SumOff(s, gone)
      t == evbuffer_free_all_chains(s, gone)
  IN [t EXCEPT !.buf[b].chains = SubSeq(L, j, Len(L)), !.buf[b].total_len = @ - len,
               !.buf[b].last_with_datap = IF LastWithData(s, b) < j \/ @ \in Range(gone) THEN b ELSE @,
               !.ch[L[j]].misalign = @ + rest, !.ch[L[j]].off = @ - rest]

evbuffer_drain_(s, b, len) ==
  LET B == s.buf[b]
      n == Min({len, B.total_len})
      t == IF len >= B.total_len THEN ZERO_CHAIN(evbuffer_free_all_chains(s, B.chains), b)
           ELSE DrainFront(s, b, len)
  IN IF B.total_len = 0 THEN Done(s)
     ELSE IF B.freeze_start THEN Fail(s)
     ELSE Done(evbuffer_invoke_callbacks_(Count(t, b, 0, n), b))

\* The list of inbuf is put into an empty outbuf, behind its data or before it.
COPY_CHAIN(s, out, in) ==
  [s EXCEPT !.buf[out].chains = s.buf[in].chains, !.buf[out].last = s.buf[in].last,
            !.buf[out].total_len = s.buf[in].total_len,
            !.buf[out].last_with_datap =
              IF s.buf[in].last_with_datap = in THEN out ELSE s.buf[in].last_with_datap]

APPEND_CHAIN(s, out, in) ==
  LET t == evbuffer_free_trailing_empty_chains(s, out)
      L == t.buf[out].chains
  IN [t EXCEPT !.buf[out].chains = L \o s.buf[in].chains, !.buf[out].last = s.buf[in].last,
               !.buf[out].total_len = @ + s.buf[in].total_len,
               !.buf[out].last_with_datap =
                 IF s.buf[in].last_with_datap = in THEN PointerTo(out, L, Len(L) + 1)
                 ELSE s.buf[in].last_with_datap]

PREPEND_CHAIN(s, out, in) ==
  [s EXCEPT !.buf[out].chains = s.buf[in].chains \o @,
            !.buf[out].total_len = @ + s.buf[in].total_len,
            !.buf[out].last_with_datap = IF @ = out THEN s.buf[in].last ELSE @]

\* joined: the state when the lists have been joined, for an outbuf that is not empty
Moved(s, out, in, joined) ==
  LET n == s.buf[in].total_len
      t == IF s.buf[out].total_len = 0
           THEN COPY_CHAIN(evbuffer_free_all_chains(s, s.buf[out].chains), out, in)
           ELSE joined
      u == Count(Count(ZERO_CHAIN(t, in), in, 0, n), out, n, 0)
  IN evbuffer_invoke_callbacks_(evbuffer_invoke_callbacks_(u, in), out)

evbuffer_add_buffer_(s, out, in) ==
  IF s.buf[in].total_len = 0 \/ out = in THEN Done(s)
  ELSE IF s.buf[out].freeze_end \/ s.buf[in].freeze_start THEN Fail(s)
  ELSE Done(Moved(s, out, in, APPEND_CHAIN(s, out, in)))

evbuffer_prepend_buffer_(s, out, in) ==
  IF s.buf[in].total_len = 0 \/ out = in THEN Done(s)
  ELSE IF s.buf[out].freeze_start \/ s.buf[in].freeze_start THEN Fail(s)
  ELSE Done(Moved(s, out, in, PREPEND_CHAIN(s, out, in)))

\* The chains of src that are moved to dst whole.
MoveChains(s, src, dst, j, nread) ==
  LET L == s.buf[src].chains
      moved == SubSeq(L, 1, j - 1)
      t == evbuffer_free_trailing_empty_chains(s, dst)
      u == [t EXCEPT !.buf[dst].chains = @ \o moved, !.buf[dst].last = L[j - 1],
                     !.buf[src].chains = SubSeq(L, j, Len(L)),
                     !.buf[src].last_with_datap = IF @ \in Range(moved) THEN src ELSE @]
  IN Grow(advance_last_with_data(u, dst), dst, nread)

evbuffer_remove_buffer_(s, src, dst, datlen) ==
  LET L == s.buf[src].chains
      j == Walk(s, L, datlen)
      nread == SumOff(s, SubSeq(L, 1, j - 1))
      rest == datlen - nread
      t == IF j > 1 THEN MoveChains(s, src, dst, j, nread) ELSE s
      u == evbuffer_add_(t, dst, SubSeq(Window(t, L[j]), 1, rest)).s
      v == [Count(u, src, 0, datlen) EXCEPT
              !.ch[L[j]].misalign = @ + rest, !.ch[L[j]].off = @ - rest,
              !.buf[src].total_len = @ - datlen]
  IN IF datlen = 0 \/ src = dst THEN Done(s)
     ELSE IF s.buf[dst].freeze_end \/ s.buf[src].freeze_start THEN Fail(s)
     ELSE IF datlen >= s.buf[src].total_len THEN evbuffer_add_buffer_(s, dst, src)
     ELSE Done(evbuffer_invoke_callbacks_(evbuffer_invoke_callbacks_(v, dst), src))

\* APPEND_CHAIN_MULTICAST for one chain of inbuf
Multicast(s, out, in, c) ==
  LET n == Fresh(s)
      k == s.ch[c]
      m == [k EXCEPT !.cells = << >>, !.immutable = TRUE, !.multicast = TRUE, !.parent = c,
                     !.source = in, !.refcnt = 1]
      t == [s EXCEPT !.ch[n] = m, !.ch[c].immutable = TRUE, !.ch[c].refcnt = @ + 1,
                     !.buf[in].refcnt = @ + 1]
  IN IF CanAlloc(s) THEN evbuffer_chain_insert(t, out, n) ELSE s

\* The chains of an empty outbuf are freed and left on its list.  When there was one,
\* evbuffer_chain_insert then works on it: used tells so, and what follows is not defined.
evbuffer_add_buffer_reference_(s, out, in) ==
  LET L == s.buf[in].chains
      full == SelectSeq(L, LAMBDA c : s.ch[c].off > 0)
      t == IF s.buf[out].total_len > 0 THEN s
           ELSE evbuffer_free_all_chains(s, s.buf[out].chains)
      n == s.buf[in].total_len
      used == s.buf[out].total_len = 0 /\ s.buf[out].chains # << >>
      u == FoldLeft(LAMBDA x, c : Multicast(x, out, in, c), t, full)
  IN IF n = 0 THEN [ok |-> TRUE, s |-> s, used |-> FALSE]
     ELSE IF s.buf[out].freeze_end \/ out = in \/ \E c \in Range(L) : s.ch[c].multicast
     THEN [ok |-> FALSE, s |-> s, used |-> FALSE]
     ELSE IF used THEN [ok |-> TRUE, s |-> t, used |-> TRUE]
     ELSE [ok |-> TRUE, s |-> evbuffer_invoke_callbacks_(Count(u, out, n, 0), out), used |-> FALSE]

\* The chains whose data is pulled into tmp, the first chain from now on.
PullInto(s, b, tmp, list, size) ==
  LET B == s.buf[b]
      j == Walk(s, list, size)
      gone == SubSeq(list, 1, j - 1)
      rest == size - SumOff(s, gone)
      kept == SubSeq(list, j, Len(list))
      t == Append_(s, tmp, SubSeq(Bytes(s, list), 1, size))
      u == IF kept = << >> THEN [t EXCEPT !.buf[b].last = tmp]
           ELSE [t EXCEPT !.ch[kept[1]].misalign = @ + rest, !.ch[kept[1]].off = @ - rest]
      first_removed == B.last_with_datap # b /\ Nth(B.chains, LastWithData(s, b)) \in Range(gone)
      more == kept # << >> /\ u.ch[kept[1]].off > 0
      v == [u EXCEPT !.buf[b].chains = <<tmp>> \o kept,
                     !.buf[b].last_with_datap =
                       IF first_removed THEN b
                       ELSE IF @ \in Range(gone) THEN IF more THEN tmp ELSE b ELSE @]
  IN evbuffer_free_all_chains(v, gone)

evbuffer_pullup_(s, b, size) ==
  LET L == s.buf[b].chains
      k == s.ch[L[1]]
      n == Fresh(s)
  IN IF size = 0 \/ size > s.buf[b].total_len THEN Fail(s)
     ELSE IF k.off >= size THEN Done(s)
     ELSE IF k.buffer_len - k.misalign >= size
     THEN Done(PullInto(s, b, L[1], Tail(L), size - k.off))
     ELSE IF ~CanAlloc(s) THEN Fail(s)
     ELSE Done(PullInto(evbuffer_chain_new(s, size), b, n, L, size))

------------------------------------------------------------------------------
(* Looking at data.  An evbuffer_ptr is [pos, i, at]: byte number at of    *)
(* the i-th chain; i = 0 is no chain.                                      *)

NotFound == [pos |-> -1, i |-> 0, at |-> 0]
Start(s, b) == [pos |-> 0, i |-> IF s.buf[b].chains = << >> THEN 0 ELSE 1, at |-> 0]

\* the bytes from p on, and the evbuffer_ptr to byte number at of the i-th chain
From(s, b, p) ==
  IF p.i = 0 THEN << >>
  ELSE LET L == s.buf[b].chains
           bytes == Bytes(s, SubSeq(L, p.i, Len(L)))
       IN SubSeq(bytes, p.at + 1, Len(bytes))
PtrAt(s, b, p, i, at) ==
  [pos |-> p.pos - p.at + SumOff(s, SubSeq(s.buf[b].chains, p.i, i - 1)) + at, i |-> i, at |-> at]

\* all the pointers from p on
After(s, b, p) ==
  IF p.i = 0 THEN {}
  ELSE LET L == s.buf[b].chains
       IN {PtrAt(s, b, p, x[1], x[2]) :
             x \in {y \in (p.i..Len(L)) \X (0..MaxLen) :
                      y[2] < s.ch[L[y[1]]].off /\ (y[1] = p.i => y[2] >= p.at)}}

First(ptrs) == IF ptrs = {} THEN NotFound ELSE CHOOSE p \in ptrs : \A q \in ptrs : p.pos <= q.pos

\* EVBUFFER_PTR_ADD; EVBUFFER_PTR_SET is the same from the start
evbuffer_ptr_set(s, b, p, howfar) ==
  LET L == s.buf[b].chains
      tail == IF p.i = 0 THEN << >> ELSE SubSeq(L, p.i, Len(L))
      j == Walk(s, tail, p.at + howfar)
  IN IF p.pos < 0 THEN p
     ELSE IF j <= Len(tail) THEN PtrAt(s, b, p, p.i + j - 1, p.at + howfar - SumOff(s, SubSeq(tail, 1, j - 1)))
     ELSE IF p.at + howfar = SumOff(s, tail) THEN [pos |-> p.pos + howfar, i |-> 0, at |-> 0]
     ELSE NotFound

evbuffer_ptr_subtract(s, b, p, howfar) ==
  IF p.pos < howfar THEN NotFound
  ELSE IF p.i # 0 /\ howfar <= p.at THEN [p EXCEPT !.pos = @ - howfar, !.at = @ - howfar]
  ELSE evbuffer_ptr_set(s, b, Start(s, b), p.pos - howfar)

evbuffer_getchr(s, b, p) == Window(s, s.buf[b].chains[p.i])[p.at + 1]

\* evbuffer_strchr and evbuffer_find_eol_char
evbuffer_strchr(s, b, p, chars) == First({q \in After(s, b, p) : evbuffer_getchr(s, b, q) \in chars})

\* how many of the bytes from p on are among chars
evbuffer_strspn(s, b, p, chars) ==
  LET bytes == From(s, b, p)
  IN Max({n \in 0..Len(bytes) : \A i \in 1..n : bytes[i] \in chars})

\* Mutant: a match may run over the end of the buffer.
memcmp_runs_over(s, b, p, what) ==
  LET bytes == From(s, b, p) IN IsPrefix(SubSeq(bytes, 1, Min({Len(bytes), Len(what)})), what)

\* evbuffer_ptr_memcmp gives 0
evbuffer_ptr_memcmp(s, b, p, what) ==
  LET bytes == From(s, b, p)
  IN /\ p.pos >= 0 /\ p.pos + Len(what) <= s.buf[b].total_len
     /\ IsPrefix(SubSeq(bytes, 1, Min({Len(bytes), Len(what)})), what)

\* evbuffer_search_range; end may be NotFound, for no end
evbuffer_search_range(s, b, what, p, end) ==
  LET q == First({x \in After(s, b, p) : /\ evbuffer_getchr(s, b, x) = what[1]
                                         /\ evbuffer_ptr_memcmp(s, b, x, what)})
  IN IF what = << >> THEN p
     ELSE IF end # NotFound /\ q.pos + Len(what) > end.pos THEN NotFound ELSE q

\* [it, len]: where the line ends, and how long its end is
evbuffer_search_eol(s, b, p, style) ==
  LET any == evbuffer_strchr(s, b, p, {CR, LF})
      lf == evbuffer_strchr(s, b, p, {LF})
      strict == evbuffer_search_range(s, b, <<CR, LF>>, p, NotFound)
      before == evbuffer_ptr_subtract(s, b, lf, 1)
      cr == lf.pos > p.pos /\ before # NotFound /\ evbuffer_getchr(s, b, before) = CR
      Eol(it, len) == IF it = NotFound THEN [it |-> it, len |-> 0] ELSE [it |-> it, len |-> len]
  IN CASE style = "ANY" -> Eol(any, evbuffer_strspn(s, b, any, {CR, LF}))
       [] style = "CRLF_STRICT" -> Eol(strict, 2)
       [] style = "LF" -> Eol(lf, 1)
       [] style = "CRLF" -> IF cr THEN [it |-> before, len |-> 2] ELSE Eol(lf, 1)

evbuffer_copyout_from(s, b, p, datlen) ==
  SubSeq(From(s, b, p), 1, Min({datlen, s.buf[b].total_len - p.pos}))

------------------------------------------------------------------------------
(* The calls of the application.                                           *)

S == [buf |-> buf, ch |-> ch]
Held(b) == buf[b] # NULL /\ buf[b].held

\* One call, which leaves the state s.  A call that changes nothing is a stuttering step.
Call(s) ==
  /\ ~fault /\ calls + settings < MaxCalls /\ calls' = calls + 1
  /\ \A b \in Buffers : s.buf[b] # NULL => s.buf[b].total_len <= MaxLen
  /\ buf' = s.buf /\ ch' = Forget(s.ch) /\ <<buf', ch'>> # <<buf, ch>>
  /\ UNCHANGED <<fault, settings>>

\* One call that changes only what buffer b is like, to B.
Set(b, B) ==
  /\ ~fault /\ settings < MaxSettings /\ calls + settings < MaxCalls /\ settings' = settings + 1
  /\ buf[b] # B /\ buf' = [buf EXCEPT ![b] = B] /\ UNCHANGED <<ch, fault, calls>>

evbuffer_new(b) ==
  buf[b] = NULL /\ Call([S EXCEPT !.buf[b] = evbuffer_new_(b)])

evbuffer_free(b) ==
  Held(b) /\ Call(evbuffer_decref_and_unlock_([S EXCEPT !.buf[b].held = FALSE], b))

evbuffer_add(b, data) == Held(b) /\ Call(evbuffer_add_(S, b, data).s)
evbuffer_prepend(b, data) == Held(b) /\ Call(evbuffer_prepend_(S, b, data).s)
evbuffer_add_reference(b, data) == Held(b) /\ Call(evbuffer_add_reference_(S, b, data).s)

AddBoth(r, b, v1, v2) ==
  LET Second(a) == IF a.ok THEN evbuffer_add_(a.s, b, v2).s ELSE a.s
  IN IF r.ok THEN Second(evbuffer_add_(r.s, b, v1)) ELSE r.s
evbuffer_add_iovec(b, v1, v2) ==
  Held(b) /\ Call(AddBoth(evbuffer_expand_fast_(S, b, Len(v1) + Len(v2), 2), b, v1, v2))

\* the text needs a byte more than it has, for the terminating zero
PrintTo(r, b, text) ==
  IF r.c = NULL THEN r.s
  ELSE evbuffer_invoke_callbacks_(
         advance_last_with_data(Append_(Grow(r.s, b, Len(text)), r.c, text), b), b)
Printf(r, b, text) ==
  IF r.c = NULL THEN r.s
  ELSE PrintTo(IF Len(text) < CHAIN_SPACE_LEN(r.s.ch[r.c]) THEN r
               ELSE evbuffer_expand_singlechain(r.s, b, Len(text) + 1), b, text)
evbuffer_add_vprintf(b, text) ==
  Held(b) /\ ~buf[b].freeze_end /\ Call(Printf(evbuffer_expand_singlechain(S, b, PrintfSpace), b, text))

\* data: what the socket has; << >> when it has nothing, is closed or fails.  r is the buffer
\* after evbuffer_expand_fast_, f what readv has done.
Received(f, b, data) ==
  LET L == f.s.buf[b].chains
      end == SelectInSeq(L, LAMBDA c : c = Last(f.vec).c)
      t == [Take(f.s, f.vec) EXCEPT !.buf[b].last_with_datap = PointerTo(b, L, end)]
  IN evbuffer_invoke_callbacks_(Grow(t, b, Len(data)), b)
Receive(r, b, howmuch, data) ==
  IF ~r.ok \/ data = << >> THEN r.s
  ELSE Received(Fill(r.s, evbuffer_read_setup_vecs_(r.s, b, howmuch, NumReadIovec, TRUE), data), b, data)
evbuffer_read(b, howmuch, data) ==
  /\ Held(b) /\ ~buf[b].freeze_end /\ Len(data) <= howmuch
  /\ Call(Receive(evbuffer_expand_fast_(S, b, howmuch, NumReadIovec), b, howmuch, data))

evbuffer_expand(b, datlen) == Held(b) /\ Call(evbuffer_expand_singlechain(S, b, datlen).s)

\* data = << >>: nothing is committed
FillAndCommit(r, b, data) ==
  LET Commit(f) == evbuffer_commit_space_(f.s, b, f.vec).s
  IN IF r.vec = << >> \/ data = << >> THEN r.s ELSE Commit(Fill(r.s, r.vec, data))
evbuffer_reserve_and_commit(b, size, n_vecs, data) ==
  /\ Held(b) /\ Len(data) <= size
  /\ Call(FillAndCommit(evbuffer_reserve_space_(S, b, size, n_vecs), b, data))

evbuffer_drain(b, len) == Held(b) /\ Call(evbuffer_drain_(S, b, len).s)

\* evbuffer_write_atmost when the socket takes n bytes
evbuffer_write(b, n) ==
  Held(b) /\ ~buf[b].freeze_start /\ n <= buf[b].total_len /\ Call(evbuffer_drain_(S, b, n).s)

evbuffer_remove(b, datlen) ==
  LET n == Len(evbuffer_copyout_from(S, b, Start(S, b), datlen))
  IN Held(b) /\ Call(IF n > 0 THEN evbuffer_drain_(S, b, n).s ELSE S)

DrainLine(e, b) ==
  LET t == IF e.it.pos > 0 THEN evbuffer_drain_(S, b, e.it.pos).s ELSE S
  IN IF e.it.pos < 0 THEN S ELSE evbuffer_drain_(t, b, e.len).s
evbuffer_readln(b, style) ==
  /\ Held(b) /\ ~buf[b].freeze_start
  /\ Call(DrainLine(evbuffer_search_eol(S, b, Start(S, b), style), b))

evbuffer_add_buffer(out, in) == Held(out) /\ Held(in) /\ Call(evbuffer_add_buffer_(S, out, in).s)
evbuffer_prepend_buffer(out, in) ==
  Held(out) /\ Held(in) /\ Call(evbuffer_prepend_buffer_(S, out, in).s)

FreeSlots == Cardinality({c \in Slots : ch[c] = NULL})

\* Its call of evbuffer_add is not checked for failure.
evbuffer_remove_buffer(src, dst, datlen) ==
  /\ Held(src) /\ Held(dst) /\ (FreeSlots = 0 => "out_of_memory_move" \in FaultyCalls)
  /\ Call(evbuffer_remove_buffer_(S, src, dst, datlen).s)

evbuffer_add_buffer_reference(out, in) ==
  LET r == evbuffer_add_buffer_reference_(S, out, in)
  IN /\ Held(out) /\ Held(in)
     /\ FreeSlots < Len(buf[in].chains) => "out_of_memory_move" \in FaultyCalls
     /\ IF r.used
        THEN /\ "reference_to_empty_chain" \in FaultyCalls /\ ~fault /\ fault' = TRUE
             /\ UNCHANGED <<buf, ch, calls, settings>>
        ELSE Call(r.s)

\* The room behind the data of an immutable chain belongs to others as well.
WritesShared(b, size) ==
  LET k == ch[buf[b].chains[1]]
  IN buf[b].chains # << >> /\ k.immutable /\ k.off < size /\ size <= k.buffer_len - k.misalign

evbuffer_pullup(b, size) ==
  /\ Held(b) /\ (WritesShared(b, size) => "pullup_shared" \in FaultyCalls)
  /\ Call(evbuffer_pullup_(S, b, size).s)

evbuffer_freeze(b, start) ==
  /\ Held(b)
  /\ Set(b, [buf[b] EXCEPT !.freeze_start = @ \/ start, !.freeze_end = @ \/ ~start])
evbuffer_unfreeze(b, start) ==
  /\ Held(b)
  /\ Set(b, [buf[b] EXCEPT !.freeze_start = @ /\ ~start, !.freeze_end = @ /\ start])

evbuffer_add_cb(b, k) ==
  /\ Held(b) /\ k \notin buf[b].callbacks
  /\ Set(b, [buf[b] EXCEPT !.callbacks = @ \cup {k}, !.enabled = @ \cup {k}, !.told[k] = OrigSize(buf[b])])
evbuffer_remove_cb(b, k) ==
  /\ Held(b) /\ k \in buf[b].callbacks
  /\ Set(b, [buf[b] EXCEPT !.callbacks = @ \ {k}, !.enabled = @ \ {k}, !.told[k] = NULL])
evbuffer_cb_set_flags(b, k) ==
  /\ Held(b) /\ k \in buf[b].callbacks
  /\ Set(b, [buf[b] EXCEPT !.enabled = @ \cup {k},
                           !.told[k] = IF k \in buf[b].enabled THEN @ ELSE OrigSize(buf[b])])
evbuffer_cb_clear_flags(b, k) ==
  /\ Held(b) /\ k \in buf[b].callbacks
  /\ Set(b, [buf[b] EXCEPT !.enabled = @ \ {k}, !.told[k] = NULL])

evbuffer_defer_callbacks(b) ==
  Held(b) /\ ~buf[b].deferred_cbs /\ Set(b, [buf[b] EXCEPT !.deferred_cbs = TRUE])

\* the event loop runs the deferred callback
evbuffer_deferred_callback(b) ==
  /\ buf[b] # NULL /\ buf[b].pending /\ ~fault
  /\ LET s == evbuffer_decref_and_unlock_(
                evbuffer_run_callbacks([S EXCEPT !.buf[b].pending = FALSE], b, TRUE), b)
     IN buf' = s.buf /\ ch' = Forget(s.ch)
  /\ UNCHANGED <<fault, calls, settings>>

------------------------------------------------------------------------------
Styles == {"ANY", "CRLF_STRICT", "LF", "CRLF"}

Init ==
  /\ buf = [b \in Buffers |-> evbuffer_new_(b)] /\ ch = [c \in Slots |-> NULL]
  /\ fault = FALSE /\ calls = 0 /\ settings = 0

Next ==
  \/ \E b \in Buffers :
       \/ evbuffer_new(b) \/ evbuffer_free(b) \/ evbuffer_defer_callbacks(b) \/ evbuffer_deferred_callback(b)
       \/ \E data \in Inputs :
            \/ evbuffer_add(b, data) \/ evbuffer_prepend(b, data) \/ evbuffer_add_reference(b, data)
            \/ evbuffer_add_vprintf(b, data)
            \/ \E v \in Inputs : evbuffer_add_iovec(b, data, v)
       \/ \E n \in Sizes :
            \/ evbuffer_drain(b, n) \/ evbuffer_remove(b, n) \/ evbuffer_write(b, n)
            \/ evbuffer_expand(b, n) \/ evbuffer_pullup(b, n)
            \/ \E data \in Inputs \cup {<< >>} :
                 evbuffer_read(b, n, data) \/ \E v \in 1..2 : evbuffer_reserve_and_commit(b, n, v, data)
       \/ \E style \in Styles : evbuffer_readln(b, style)
       \/ \E start \in BOOLEAN : evbuffer_freeze(b, start) \/ evbuffer_unfreeze(b, start)
       \/ \E k \in Callbacks : \/ evbuffer_add_cb(b, k) \/ evbuffer_remove_cb(b, k)
                               \/ evbuffer_cb_set_flags(b, k) \/ evbuffer_cb_clear_flags(b, k)
  \/ \E b, c \in Buffers :
       \/ evbuffer_add_buffer(b, c) \/ evbuffer_prepend_buffer(b, c)
       \/ evbuffer_add_buffer_reference(b, c)
       \/ \E n \in Sizes : evbuffer_remove_buffer(b, c, n)

Spec == Init /\ [][Next]_vars

------------------------------------------------------------------------------
Live == {b \in Buffers : buf[b] # NULL}
Chains == {c \in Slots : ch[c] # NULL}

(* The types of the variables: freed chains and buffers are NULL, the      *)
(* counters of buffer.c stay within what the bounds allow.                 *)
TypeOK ==
  /\ fault \in BOOLEAN /\ calls \in 0..MaxCalls /\ settings \in 0..MaxSettings
  /\ \A c \in Chains : ch[c].buffer_len \in Nat /\ ch[c].refcnt \in Nat \ {0}
  /\ \A b \in Live : /\ buf[b].chains \in Seq(Slots) /\ buf[b].total_len \in 0..MaxLen
                     /\ buf[b].n_add_for_cb \in Nat /\ buf[b].n_del_for_cb \in Nat
                     /\ buf[b].refcnt \in Nat \ {0}

(* What evbuffer_validate_ of the regression tests wants of a buffer after *)
(* every call: last is the last chain, last_with_datap points to the last  *)
(* chain with data (or to the first), the lengths add up, and each window  *)
(* lies within its chain's block.                                          *)
BufferValid ==
  \A b \in Live :
    LET L == buf[b].chains
        w == LastWithData(S, b) IN
    /\ Range(L) \subseteq Chains /\ IsInjective(L)
    /\ buf[b].last = Nth(L, Len(L))
    /\ buf[b].last_with_datap \in {b} \cup Range(L)
    /\ w <= Max({1, Len(L)})
    /\ L # << >> /\ w > 1 => ch[L[w]].off > 0
    /\ \A i \in w + 1..Len(L) : ch[L[i]].off = 0
    /\ buf[b].total_len = SumOff(S, L)
    /\ \A c \in Range(L) : ch[c].misalign >= 0 /\ ch[c].misalign + ch[c].off <= ch[c].buffer_len

(* Reference counts are exact: a chain is counted once for the buffer that *)
(* lists it and once for every chain that refers to it, a buffer for its   *)
(* owner, its scheduled callback and the chains that refer to its chains.  *)
(* So nothing is freed while it is shown, and the cleanup function of a    *)
(* reference is called when the last chain that shows its memory goes.     *)
ReferencesCounted ==
  /\ \A c \in Chains :
       /\ ch[c].refcnt = Cardinality({b \in Live : c \in Range(buf[b].chains)})
                         + Cardinality({d \in Chains : ch[d].parent = c})
       /\ ch[c].mem \in Chains /\ ~ch[ch[c].mem].multicast
       /\ ch[c].multicast => ch[c].parent \in Chains /\ ch[c].source \in Live
  /\ \A b \in Live :
       buf[b].refcnt = Cardinality({d \in Chains : ch[d].source = b})
                       + (IF buf[b].held THEN 1 ELSE 0) + (IF buf[b].pending THEN 1 ELSE 0)

(* A buffer is valid, and everything it shows is counted: no sequence of   *)
(* calls on two buffers leaves a chain that is lost, listed twice or freed *)
(* too early.                                                              *)
ChainsSound == BufferValid /\ ReferencesCounted

(* A callback's next report starts where its last one ended, whatever was  *)
(* added, removed or deferred in between (struct evbuffer_cb_info).  Not   *)
(* promised to a callback that is not deferred although its buffer is: it  *)
(* is told again what the deferred ones have not been told yet.            *)
ReportsContiguous ==
  \A b \in Live : \A k \in Enabled(buf[b]) :
    ~(k = "nodefer" /\ buf[b].deferred_cbs) => OrigSize(buf[b]) = buf[b].told[k]

(* No call works on a chain that has been freed (EVUTIL_ASSERT(refcnt > 0) *)
(* in evbuffer_chain_free).                                                *)
NoFreedChainUsed == ~fault

\* The first place from p on where what is found in the bytes q, -1 if there is none.
Find(q, what, p) ==
  LET at == {i \in p..Len(q) - Len(what) : SubSeq(q, i + 1, i + Len(what)) = what}
  IN IF at = {} THEN -1 ELSE Min(at)

(* The functions that look at a buffer see its content and not how it is   *)
(* cut into chains: copying out, searching and finding the end of a line   *)
(* give what the same operation on the plain bytes gives, from every start.*)
ReadersSeeContent ==
  \A b \in Live : LET q == Content(S, b) IN \A n \in 0..buf[b].total_len :
    LET p == evbuffer_ptr_set(S, b, Start(S, b), n)
        lf == Find(q, <<LF>>, n)
        cr == Find(q, <<CR>>, n)
        Eol(style) == evbuffer_search_eol(S, b, p, style)
        crlf == lf > n /\ q[lf] = CR IN
    /\ p.pos = n
    /\ \A m \in Sizes : evbuffer_copyout_from(S, b, p, m) = SubSeq(q, n + 1, Min({n + m, Len(q)}))
    /\ \A what \in Inputs : evbuffer_search_range(S, b, what, p, NotFound).pos = Find(q, what, n)
    /\ Eol("LF").it.pos = lf
    /\ Eol("CRLF_STRICT").it.pos = Find(q, <<CR, LF>>, n)
    /\ Eol("ANY").it.pos = IF lf < 0 \/ (cr >= 0 /\ cr < lf) THEN cr ELSE lf
    /\ Eol("CRLF").it.pos = IF crlf THEN lf - 1 ELSE lf
    /\ lf >= 0 => Eol("CRLF").it.pos + Eol("CRLF").len = lf + 1

(* What the application is shown of a buffer is its content: by the        *)
(* functions that read and search it, and by the sizes its callbacks get.  *)
ViewsAreRight == ReadersSeeContent /\ ReportsContiguous

(* The evbuffer is a byte queue (ByteQueue): whatever the calls do to the  *)
(* chains, every byte arrives, once, in order, and only a call on a buffer *)
(* changes what is in it.                                                  *)
Queue == INSTANCE ByteQueue WITH
  Data <- Inputs \cup {d \o e : d \in Inputs, e \in Inputs},
  content <- [b \in Buffers |-> IF Held(b) THEN Content(S, b) ELSE << >>]
IsByteQueue == Queue!Spec

=============================================================================
