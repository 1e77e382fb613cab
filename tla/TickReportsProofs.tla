------------------------- MODULE TickReportsProofs -------------------------
(***************************************************************************)
(* Proofs about the report handler beside the ticks, for every set of      *)
(* instances, goroutines and calls and every bound: a fill is added to the *)
(* holdings at most once, and holdings that no race has touched account    *)
(* for the trades on record.                                               *)
(***************************************************************************)
EXTENDS TickReports, InstanceTickProofs

-----------------------------------------------------------------------------
(* Types                                                                    *)

\* A call is a record of its fields, and not NoCall.
LEMMA CallFields ==
  ASSUME NEW c \in Call
  PROVE  /\ c.pc # "idle" /\ c # NoCall /\ c.inst \in Instance /\ c.order \in SUBSET OrderId
         /\ c.row \in Portfolio /\ c.added \in SUBSET OrderId
BY DEF Call, Booking, NoCall

\* A call that moves on, or reads the row, is a call.
LEMMA CallMoves ==
  ASSUME NEW c \in Call, NEW pc \in {"readBalances", "saveBalances", "fillOrder"} \cup Booking
  PROVE  /\ [c EXCEPT !.pc = pc] \in Call
         /\ \A r \in Portfolio, a \in SUBSET OrderId :
              [c EXCEPT !.pc = pc, !.row = r, !.added = a] \in Call
BY DEF Call

\* A call at a statement is one of Call.
LEMMA CallAt ==
  ASSUME ReportsTypeOK, NEW h \in Handler, call[h].pc # "idle"
  PROVE  call[h] \in Call
BY DEF ReportsTypeOK, NoCall

\* The steps of a tick and of everything else that writes the variables of InstanceTick.
LEMMA ReportsBaseSteps ==
  ASSUME TypeOK, [ReportsNext]_allVars, \A h \in Handler : ~Process(h)
  PROVE  TypeOK'
<1>1. CASE OtherStep
  BY <1>1, OtherStepType DEF OtherStep, ServerStep
<1>2. CASE ExitWithCalls
  BY <1>2, OtherStepType DEF ExitWithCalls, ServerStep
<1>3. ASSUME NEW i \in Instance, NEW k \in Slot,
             LoadRow(i, k) \/ CommitRowAndFills(i, k) \/ OtherTickStep(i, k)
      PROVE  TypeOK'
  BY <1>3, TickStepType DEF LoadRow, CommitRowAndFills, OtherTickStep, TickStep
<1>4. ASSUME NEW h \in Handler, NEW i \in Instance, ReceiveReport(h, i) PROVE TypeOK'
  BY <1>4 DEF ReceiveReport, TypeOK, vars
<1>5. CASE UNCHANGED allVars
  BY <1>5 DEF allVars, vars, TypeOK
<1>6. QED BY <1>1, <1>2, <1>3, <1>4, <1>5 DEF ReportsNext

\* Where a call goes next, and a call that ends.
LEMMA CallWrites ==
  ASSUME ReportsTypeOK, NEW h \in Handler, call[h] \in Call
  PROVE  /\ \A pc \in {"readBalances", "saveBalances", "fillOrder"} \cup Booking :
              Goto(h, pc) => call' \in [Handler -> Call \cup {NoCall}]
         /\ Return(h) => call' \in [Handler -> Call \cup {NoCall}]
         /\ AfterBalances(h) => call' \in [Handler -> Call \cup {NoCall}]
<1>1. ASSUME NEW c \in Call \cup {NoCall}, call' = [call EXCEPT ![h] = c]
      PROVE  call' \in [Handler -> Call \cup {NoCall}]
  BY <1>1 DEF ReportsTypeOK
<1>2. ASSUME NEW pc \in {"readBalances", "saveBalances", "fillOrder"} \cup Booking, Goto(h, pc)
      PROVE  call' \in [Handler -> Call \cup {NoCall}]
  <2>1. call' = [call EXCEPT ![h] = [call[h] EXCEPT !.pc = pc]]
    BY <1>2 DEF Goto
  <2>2. [call[h] EXCEPT !.pc = pc] \in Call
    BY CallMoves
  <2>3. QED BY <1>1, <2>1, <2>2
<1>3. ASSUME Return(h) PROVE call' \in [Handler -> Call \cup {NoCall}]
  BY <1>1, <1>3 DEF Return
<1>4. QED BY <1>2, <1>3 DEF AfterBalances

\* A call reads the row.
LEMMA CallReads ==
  ASSUME ReportsTypeOK, NEW h \in Handler, call[h] \in Call,
         NEW pc \in {"readBalances", "saveBalances", "fillOrder"} \cup Booking,
         call' = [call EXCEPT ![h].pc = pc, ![h].row = portfolio[call[h].inst],
                              ![h].added = added[call[h].inst]]
  PROVE  /\ call' \in [Handler -> Call \cup {NoCall}]
         /\ call'[h].pc = pc /\ call'[h].inst = call[h].inst /\ call'[h].order = call[h].order
         /\ call'[h].row = portfolio[call[h].inst] /\ call'[h].added = added[call[h].inst]
         /\ \A g \in Handler \ {h} : call'[g] = call[g]
<1> DEFINE i == call[h].inst
<1>1. portfolio[i] \in Portfolio /\ added[i] \in SUBSET OrderId
  BY CallFields DEF ReportsTypeOK, TypeOK
<1>2. PICK c : c = [call[h] EXCEPT !.pc = pc, !.row = portfolio[i], !.added = added[i]]
  OBVIOUS
<1>3. c \in Call
  BY <1>1, <1>2, CallMoves
<1>4. call' = [call EXCEPT ![h] = c]
  BY <1>2
<1>5. call'[h] = c /\ \A g \in Handler \ {h} : call'[g] = call[g]
  BY <1>4 DEF ReportsTypeOK
<1>6. call' \in [Handler -> Call \cup {NoCall}]
  BY <1>3, <1>4 DEF ReportsTypeOK
<1>7. c.pc = pc /\ c.inst = i /\ c.order = call[h].order /\ c.row = portfolio[i] /\ c.added = added[i]
  BY <1>2 DEF Call
<1>8. QED BY <1>5, <1>6, <1>7

\* What a save of a row writes.
LEMMA SaveRowType ==
  ASSUME ReportsTypeOK, NEW h \in Handler, call[h] \in Call, NEW fills \in SUBSET OrderId,
         SaveRow(h, fills)
  PROVE  /\ portfolio' \in [Instance -> Portfolio]
         /\ added' \in [Instance -> SUBSET OrderId]
         /\ raced' \in SUBSET Instance /\ raced \subseteq raced'
BY CallFields DEF SaveRow, RaceUnless, ReportsTypeOK, TypeOK

\* A step of Process leaves the ticks, the orders and the environment alone.
LEMMA ProcessFrame ==
  ASSUME ReportsTypeOK, NEW h \in Handler, Process(h)
  PROVE  /\ UNCHANGED <<status, creating, phase, restarts, events, runtime, orders, sends, newest,
                        clock, online, tick, disturbed, seen, reports>>
         /\ faults' \in 0 .. MaxFault
         /\ call[h] \in Call
<1>1. UNCHANGED <<status, creating, phase, restarts, events, runtime, orders, sends, newest,
                  clock, online, tick, disturbed, seen, reports>>
  BY DEF Process, ReadBalances, SaveBalances, FillOrder, CreateTrade, ReadHoldings, SaveHoldings,
         lifeVars, envVars, rows
<1>2. UNCHANGED faults \/ FailsOnce
  BY DEF Process, ReadBalances, SaveBalances, FillOrder, CreateTrade, ReadHoldings, SaveHoldings
<1>3. faults' \in 0 .. MaxFault
  BY <1>2, ConstAssumption DEF FailsOnce, ReportsTypeOK, TypeOK, ConstAssumption
<1>4. call[h].pc # "idle"
  BY DEF Process, ReadBalances, SaveBalances, FillOrder, CreateTrade, ReadHoldings, SaveHoldings, At
<1>5. QED BY <1>1, <1>3, <1>4, CallAt

LEMMA ProcessTypes ==
  ASSUME ReportsTypeOK, NEW h \in Handler, Process(h)
  PROVE  ReportsTypeOK'
<1> DEFINE i == call[h].inst
<1>1. /\ UNCHANGED <<status, creating, phase, restarts, events, runtime, orders, sends, newest,
                     clock, online, tick, disturbed, seen, reports>>
      /\ faults' \in 0 .. MaxFault
      /\ call[h] \in Call
  BY ProcessFrame
<1>2. i \in Instance /\ call[h].order \in SUBSET OrderId
  BY <1>1, CallFields
<1>r. \A ok : RaceUnless(i, ok) => raced' \in SUBSET Instance
  BY <1>2 DEF RaceUnless, ReportsTypeOK
<1>w. /\ \A pc \in {"readBalances", "saveBalances", "fillOrder"} \cup Booking :
            Goto(h, pc) => call' \in [Handler -> Call \cup {NoCall}]
      /\ Return(h) \/ AfterBalances(h) => call' \in [Handler -> Call \cup {NoCall}]
  BY <1>1, CallWrites
<1>c. call' \in [Handler -> Call \cup {NoCall}]
  <2>1. CASE ReadBalances(h)
    BY <2>1, <1>1, <1>w, CallReads DEF ReadBalances
  <2>2. CASE SaveBalances(h)
    BY <2>2, <1>w DEF SaveBalances
  <2>3. CASE FillOrder(h)
    BY <2>3, <1>w DEF FillOrder, Booking
  <2>4. CASE CreateTrade(h)
    BY <2>4, <1>w DEF CreateTrade, AfterDuplicate, Booking
  <2>5. CASE ReadHoldings(h)
    <3>1. Return(h) \/ call' = [call EXCEPT ![h].pc = "saveHoldings", ![h].row = portfolio[i],
                                            ![h].added = added[i]]
      BY <2>5 DEF ReadHoldings
    <3>2. "saveHoldings" \in Booking
      BY DEF Booking
    <3>3. QED BY <3>1, <3>2, <1>1, <1>w, CallReads
  <2>6. CASE SaveHoldings(h)
    BY <2>6, <1>w DEF SaveHoldings
  <2>7. QED BY <2>1, <2>2, <2>3, <2>4, <2>5, <2>6 DEF Process
<1>p. /\ portfolio' \in [Instance -> Portfolio]
      /\ added' \in [Instance -> SUBSET OrderId]
      /\ raced' \in SUBSET Instance
  <2>u. UNCHANGED <<portfolio, added, raced>> =>
          /\ portfolio' \in [Instance -> Portfolio]
          /\ added' \in [Instance -> SUBSET OrderId]
          /\ raced' \in SUBSET Instance
    BY DEF ReportsTypeOK, TypeOK
  <2>v. UNCHANGED <<portfolio, added>> /\ RaceUnless(i, FALSE) =>
          /\ portfolio' \in [Instance -> Portfolio]
          /\ added' \in [Instance -> SUBSET OrderId]
          /\ raced' \in SUBSET Instance
    BY <1>r DEF ReportsTypeOK, TypeOK
  <2>1. CASE ReadBalances(h)
    BY <2>1, <2>u DEF ReadBalances, rows
  <2>2. CASE SaveBalances(h)
    BY <2>2, <2>u, <1>1, SaveRowType DEF SaveBalances
  <2>3. CASE FillOrder(h)
    BY <2>3, <2>u DEF FillOrder, rows
  <2>4. CASE CreateTrade(h)
    BY <2>4, <2>u, <2>v DEF CreateTrade
  <2>5. CASE ReadHoldings(h)
    BY <2>5, <2>u, <2>v DEF ReadHoldings, rows
  <2>6. CASE SaveHoldings(h)
    BY <2>6, <2>v, <1>1, <1>2, SaveRowType DEF SaveHoldings, Fills
  <2>7. QED BY <2>1, <2>2, <2>3, <2>4, <2>5, <2>6 DEF Process
<1>t. /\ trades' \in SUBSET OrderId
      /\ filled' \in SUBSET OrderId
      /\ credited' \in [OrderId -> Nat]
  <2>1. trades' \in SUBSET OrderId
    BY <1>2 DEF Process, ReadBalances, SaveBalances, FillOrder, CreateTrade, ReadHoldings,
                SaveHoldings, rows, ReportsTypeOK, TypeOK
  <2>2. filled' \in SUBSET OrderId
    BY <1>2 DEF Process, ReadBalances, SaveBalances, FillOrder, CreateTrade, ReadHoldings,
                SaveHoldings, ReportsTypeOK
  <2>3. \/ UNCHANGED credited
        \/ credited' = [id \in OrderId |-> credited[id] + IF id \in Fills(h) THEN 1 ELSE 0]
    BY DEF Process, ReadBalances, SaveBalances, FillOrder, CreateTrade, ReadHoldings, SaveHoldings
  <2>4. credited' \in [OrderId -> Nat]
    BY <2>3 DEF ReportsTypeOK
  <2>5. QED BY <2>1, <2>2, <2>4
<1>b. TypeOK'
  BY <1>1, <1>p, <1>t DEF ReportsTypeOK, TypeOK
<1>q. QED BY <1>1, <1>b, <1>c, <1>p, <1>t DEF ReportsTypeOK

LEMMA ReportsTypeStep ==
  ASSUME ReportsTypeOK, [ReportsNext]_allVars
  PROVE  ReportsTypeOK'
<1>1. ASSUME NEW h \in Handler, Process(h) PROVE ReportsTypeOK'
  BY <1>1, ProcessTypes
<1> SUFFICES ASSUME \A h \in Handler : ~Process(h) PROVE ReportsTypeOK'
  BY <1>1
<1>t. TypeOK'
  BY ReportsBaseSteps DEF ReportsTypeOK
<1>s. UNCHANGED reportVars => ReportsTypeOK'
  BY <1>t DEF reportVars, ReportsTypeOK
<1>2. CASE OtherStep \/ (\E i \in Instance, k \in Slot : OtherTickStep(i, k))
  BY <1>2, <1>s DEF OtherStep, OtherTickStep
<1>3. CASE ExitWithCalls
  <2>1. \A h \in Handler : call[h].pc \in Booking => call[h] \in Call
    BY CallAt DEF Booking
  <2>2. raced' \in SUBSET Instance
    BY <1>3, <2>1, CallFields DEF ExitWithCalls, ReportsTypeOK
  <2>3. QED BY <1>3, <1>t, <2>2 DEF ExitWithCalls, ReportsTypeOK
<1>4. ASSUME NEW i \in Instance, NEW k \in Slot, LoadRow(i, k) PROVE ReportsTypeOK'
  <2>1. Row(i) \in [row : Portfolio, added : SUBSET OrderId]
    BY DEF Row, ReportsTypeOK, TypeOK
  <2>2. QED BY <1>4, <1>t, <2>1 DEF LoadRow, ReportsTypeOK
<1>5. ASSUME NEW i \in Instance, NEW k \in Slot, CommitRowAndFills(i, k) PROVE ReportsTypeOK'
  <2>1. seen[i][k].added \in SUBSET OrderId
    BY DEF ReportsTypeOK
  <2>2. added' \in [Instance -> SUBSET OrderId] /\ raced' \in SUBSET Instance
    BY <1>5, <2>1 DEF CommitRowAndFills, RaceUnless, ReportsTypeOK
  <2>3. QED BY <1>5, <1>t, <2>2 DEF CommitRowAndFills, ReportsTypeOK
<1>6. ASSUME NEW h \in Handler, NEW i \in Instance, ReceiveReport(h, i) PROVE ReportsTypeOK'
  <2>1. PICK order \in {{}} \cup {{id} : id \in {o \in OrderId : o.inst = i /\ sends[o] > 0}},
             pc \in {"readBalances", "fillOrder"} :
          call' = [call EXCEPT ![h] =
            [pc |-> pc, inst |-> i, order |-> order, row |-> portfolio[i], added |-> {}]]
    BY <1>6 DEF ReceiveReport
  <2>2. order \in SUBSET OrderId /\ portfolio[i] \in Portfolio
    BY DEF ReportsTypeOK, TypeOK
  <2>3. [pc |-> pc, inst |-> i, order |-> order, row |-> portfolio[i], added |-> {}] \in Call
    BY <2>2 DEF Call
  <2>4. call' \in [Handler -> Call \cup {NoCall}]
    BY <2>1, <2>3 DEF ReportsTypeOK
  <2>5. reports' \in 0 .. MaxReport
    BY <1>6, ReportAssumption DEF ReceiveReport, ReportsTypeOK
  <2>6. QED BY <1>6, <1>t, <2>4, <2>5 DEF ReceiveReport, ReportsTypeOK
<1>7. CASE UNCHANGED allVars
  BY <1>7, <1>s DEF allVars
<1>8. QED BY <1>2, <1>3, <1>4, <1>5, <1>6, <1>7 DEF ReportsNext

THEOREM ReportsTyping == ReportsSpec => []ReportsTypeOK
<1>1. ReportsInit => ReportsTypeOK
  <2> SUFFICES ASSUME ReportsInit PROVE ReportsTypeOK
    OBVIOUS
  <2>1. TypeOK
    BY TypeInit DEF ReportsInit
  <2>2. \A i \in Instance : portfolio[i] \in Portfolio
    BY <2>1 DEF TypeOK
  <2>3. seen \in [Instance -> [Slot -> [row : Portfolio, added : SUBSET OrderId]]]
    BY <2>2 DEF ReportsInit
  <2>4. QED BY <2>1, <2>3, ReportAssumption DEF ReportsInit, ReportsTypeOK
<1>2. ReportsTypeOK /\ [ReportsNext]_allVars => ReportsTypeOK'
  BY ReportsTypeStep
<1>3. QED BY <1>1, <1>2, PTL DEF ReportsSpec

-----------------------------------------------------------------------------
(* Calls and credits                                                        *)

\* A call that goes on, and a call that ends.
LEMMA GotoFacts ==
  ASSUME ReportsTypeOK, NEW h \in Handler, call[h] \in Call
  PROVE  /\ \A pc : Goto(h, pc) =>
              /\ call'[h].pc = pc /\ call'[h].inst = call[h].inst /\ call'[h].order = call[h].order
              /\ \A g \in Handler \ {h} : call'[g] = call[g]
         /\ Return(h) =>
              /\ call'[h] = NoCall
              /\ \A g \in Handler \ {h} : call'[g] = call[g]
<1>1. ASSUME NEW pc, Goto(h, pc)
      PROVE  /\ call'[h].pc = pc /\ call'[h].inst = call[h].inst /\ call'[h].order = call[h].order
             /\ \A g \in Handler \ {h} : call'[g] = call[g]
  <2>1. PICK c : c = [call[h] EXCEPT !.pc = pc]
    OBVIOUS
  <2>2. c.pc = pc /\ c.inst = call[h].inst /\ c.order = call[h].order
    BY <2>1 DEF Call
  <2>3. call' = [call EXCEPT ![h] = c]
    BY <1>1, <2>1 DEF Goto
  <2>4. call'[h] = c /\ \A g \in Handler \ {h} : call'[g] = call[g]
    BY <2>3 DEF ReportsTypeOK
  <2>5. QED BY <2>2, <2>4
<1>2. ASSUME Return(h)
      PROVE  call'[h] = NoCall /\ \A g \in Handler \ {h} : call'[g] = call[g]
  BY <1>2 DEF Return, ReportsTypeOK
<1>3. QED BY <1>1, <1>2

\* What a step of Process does to the calls, the trades and the filled orders.
LEMMA ProcessCall ==
  ASSUME ReportsTypeOK, NEW h \in Handler, Process(h)
  PROVE  /\ \A g \in Handler \ {h} : call'[g] = call[g]
         /\ \/ call'[h] = NoCall
            \/ call'[h].inst = call[h].inst /\ call'[h].order = call[h].order
         /\ call'[h].pc \in Made =>
              \/ ReadHoldings(h) /\ call'[h].pc = "saveHoldings"
              \/ /\ CreateTrade(h) /\ call'[h].pc = "readHoldings"
                 /\ call[h].order \cap trades = {}
                 /\ trades' = trades \cup call[h].order
         /\ call'[h].pc = "createTrade" => FillOrder(h)
         /\ trades' # trades => CreateTrade(h) /\ call'[h].pc = "readHoldings"
         /\ trades \subseteq trades'
         /\ filled' # filled =>
              FillOrder(h) /\ call'[h].pc = "createTrade" /\ filled' = filled \cup call[h].order
         /\ credited' # credited => SaveHoldings(h)
<1>0. call[h] \in Call
  BY ProcessFrame
<1>n. NoCall.pc = "idle"
  BY DEF NoCall
<1>g. /\ \A pc : Goto(h, pc) =>
           /\ call'[h].pc = pc /\ call'[h].inst = call[h].inst /\ call'[h].order = call[h].order
           /\ \A g \in Handler \ {h} : call'[g] = call[g]
      /\ Return(h) =>
           /\ call'[h] = NoCall
           /\ \A g \in Handler \ {h} : call'[g] = call[g]
  BY <1>0, GotoFacts
<1>r. ASSUME NEW pc \in {"saveBalances", "saveHoldings"},
             call' = [call EXCEPT ![h].pc = pc, ![h].row = portfolio[call[h].inst],
                                  ![h].added = added[call[h].inst]]
      PROVE  /\ call'[h].pc = pc /\ call'[h].inst = call[h].inst /\ call'[h].order = call[h].order
             /\ \A g \in Handler \ {h} : call'[g] = call[g]
  <2>1. pc \in {"readBalances", "saveBalances", "fillOrder"} \cup Booking
    BY DEF Booking
  <2>2. QED BY <1>r, <2>1, <1>0, CallReads
<1>1. CASE ReadBalances(h)
  <2>1. \/ call' = [call EXCEPT ![h].pc = "saveBalances", ![h].row = portfolio[call[h].inst],
                                ![h].added = added[call[h].inst]]
        \/ Return(h)
        \/ Goto(h, "fillOrder")
    BY <1>1 DEF ReadBalances, AfterBalances
  <2>2. UNCHANGED <<trades, filled, credited>>
    BY <1>1 DEF ReadBalances, rows
  <2>3. QED BY <1>n, <1>g, <1>r, <2>1, <2>2 DEF Made
<1>2. CASE SaveBalances(h)
  <2>1. Return(h) \/ Goto(h, "fillOrder")
    BY <1>2 DEF SaveBalances, AfterBalances
  <2>2. UNCHANGED <<trades, filled, credited>>
    BY <1>2 DEF SaveBalances
  <2>3. QED BY <1>n, <1>g, <2>1, <2>2 DEF Made
<1>3. CASE FillOrder(h)
  <2>1. \/ Return(h) /\ UNCHANGED filled
        \/ Goto(h, "createTrade") /\ filled' = filled \cup call[h].order
    BY <1>3 DEF FillOrder
  <2>2. UNCHANGED <<trades, credited>>
    BY <1>3 DEF FillOrder, rows
  <2>3. QED BY <1>n, <1>3, <1>g, <2>1, <2>2 DEF Made
<1>4. CASE CreateTrade(h)
  <2>1. \/ Return(h) /\ UNCHANGED trades
        \/ /\ Goto(h, "readHoldings")
           /\ call[h].order \cap trades = {} /\ trades' = trades \cup call[h].order
    BY <1>4 DEF CreateTrade, AfterDuplicate
  <2>2. UNCHANGED <<filled, credited>>
    BY <1>4 DEF CreateTrade
  <2>3. QED BY <1>n, <1>4, <1>g, <2>1, <2>2 DEF Made
<1>5. CASE ReadHoldings(h)
  <2>1. \/ call' = [call EXCEPT ![h].pc = "saveHoldings", ![h].row = portfolio[call[h].inst],
                                ![h].added = added[call[h].inst]]
        \/ Return(h)
    BY <1>5 DEF ReadHoldings
  <2>2. UNCHANGED <<trades, filled, credited>>
    BY <1>5 DEF ReadHoldings, rows
  <2>3. QED BY <1>n, <1>5, <1>g, <1>r, <2>1, <2>2 DEF Made
<1>6. CASE SaveHoldings(h)
  <2>1. Return(h) /\ UNCHANGED <<trades, filled>>
    BY <1>6 DEF SaveHoldings
  <2>2. QED BY <1>n, <1>6, <1>g, <2>1 DEF Made
<1>7. QED BY <1>1, <1>2, <1>3, <1>4, <1>5, <1>6 DEF Process

\* The other steps make no call that has made a trade, and trades only grow.
LEMMA QuietCalls ==
  ASSUME ReportsTypeOK, [ReportsNext]_allVars, \A h \in Handler : ~Process(h)
  PROVE  /\ \A h \in Handler : \/ call'[h] = call[h]
                               \/ call'[h] = NoCall
                               \/ \E i \in Instance : ReceiveReport(h, i)
         /\ \A h \in Handler, i \in Instance : ReceiveReport(h, i) =>
              /\ call'[h].pc \in {"readBalances", "fillOrder"} /\ call'[h].inst = i
              /\ \A id \in call'[h].order : id.inst = i
              /\ \A g \in Handler \ {h} : call'[g] = call[g]
         /\ trades \subseteq trades'
         /\ UNCHANGED <<credited, filled>>
<1>1. ASSUME NEW h \in Handler, NEW i \in Instance, ReceiveReport(h, i)
      PROVE  /\ call'[h].pc \in {"readBalances", "fillOrder"} /\ call'[h].inst = i
             /\ \A id \in call'[h].order : id.inst = i
             /\ \A g \in Handler \ {h} : call'[g] = call[g]
             /\ UNCHANGED <<trades, credited, filled>>
  <2>1. PICK order \in {{}} \cup {{id} : id \in {o \in OrderId : o.inst = i /\ sends[o] > 0}},
             pc \in {"readBalances", "fillOrder"} :
          call' = [call EXCEPT ![h] =
            [pc |-> pc, inst |-> i, order |-> order, row |-> portfolio[i], added |-> {}]]
    BY <1>1 DEF ReceiveReport
  <2>2. \A id \in order : id.inst = i
    OBVIOUS
  <2>3. /\ call'[h] = [pc |-> pc, inst |-> i, order |-> order, row |-> portfolio[i], added |-> {}]
        /\ \A g \in Handler \ {h} : call'[g] = call[g]
    BY <2>1 DEF ReportsTypeOK
  <2>4. QED BY <1>1, <2>2, <2>3 DEF ReceiveReport, vars
<1> DEFINE Bystander == /\ \A h \in Handler : call'[h] = call[h] \/ call'[h] = NoCall
                        /\ trades \subseteq trades'
                        /\ UNCHANGED <<credited, filled>>
<1>2. ASSUME OtherStep PROVE Bystander
  BY <1>2 DEF OtherStep, reportVars, LifecycleStep, CreateInstance, CreatePortfolio, StartInstance,
     StopInstance, DeleteInstance, SetStatus, Shutdown, Restart, Scan, EnvStep, NewBar, TimePasses,
     AgentConnects, AgentLeaves, rows
<1>3. ASSUME ExitWithCalls PROVE Bystander
  BY <1>3 DEF ExitWithCalls, Exit, rows
<1>4. ASSUME NEW i \in Instance, NEW k \in Slot,
             LoadRow(i, k) \/ CommitRowAndFills(i, k) \/ OtherTickStep(i, k)
      PROVE  Bystander
  <2>1. UNCHANGED <<call, credited, filled>>
    BY <1>4 DEF LoadRow, CommitRowAndFills, OtherTickStep, reportVars
  <2>2. trades \subseteq trades'
    BY <1>4 DEF LoadRow, CommitRowAndFills, OtherTickStep, AbortTick, LoadBar, SkipBar, LoadPortfolio,
       RunStep, RunStepFails, PersistRuntime, WriteOrder, RejectOrder, SendCommand, BookTrade, SkipTrade,
       CommitTick, rows
  <2>3. QED BY <2>1, <2>2
<1>5. ASSUME UNCHANGED allVars PROVE Bystander
  BY <1>5 DEF allVars, vars, reportVars
<1>6. Bystander \/ \E h \in Handler, i \in Instance : ReceiveReport(h, i)
  BY <1>2, <1>3, <1>4, <1>5 DEF ReportsNext
<1> HIDE DEF Bystander
<1>7. CASE Bystander
  BY <1>7, <1>1 DEF Bystander
<1>8. ASSUME NEW h \in Handler, NEW i \in Instance, ReceiveReport(h, i)
      PROVE  /\ \A g \in Handler : call'[g] = call[g] \/ \E j \in Instance : ReceiveReport(g, j)
             /\ UNCHANGED <<trades, credited, filled>>
  BY <1>8, <1>1
<1>9. QED BY <1>1, <1>6, <1>7, <1>8

\* The unique index on trade_records lets one call through for an order, ever.
LEMMA CallStep ==
  ASSUME ReportsTypeOK, CallInv, [ReportsNext]_allVars
  PROVE  CallInv'
<1>n. NoCall.pc = "idle" /\ "idle" \notin Made /\ "readBalances" \notin Made /\ "fillOrder" \notin Made
  BY DEF NoCall, Made
<1>1. CASE \A h \in Handler : ~Process(h)
  <2>1. /\ \A h \in Handler : \/ call'[h] = call[h]
                              \/ call'[h] = NoCall
                              \/ \E i \in Instance : ReceiveReport(h, i)
        /\ \A h \in Handler, i \in Instance : ReceiveReport(h, i) =>
              /\ call'[h].pc \in {"readBalances", "fillOrder"} /\ call'[h].inst = i
              /\ \A id \in call'[h].order : id.inst = i
        /\ trades \subseteq trades' /\ credited' = credited
    BY <1>1, QuietCalls
  <2>2. \A h \in Handler : call'[h].pc \in Made => call'[h] = call[h]
    BY <2>1, <1>n
  <2>3. \A h \in Handler : call'[h] # NoCall => \A id \in call'[h].order : id.inst = call'[h].inst
    BY <2>1 DEF CallInv
  <2>4. QED BY <2>1, <2>2, <2>3 DEF CallInv
<1>2. ASSUME NEW h \in Handler, Process(h) PROVE CallInv'
  <2>1. /\ \A g \in Handler \ {h} : call'[g] = call[g]
        /\ \/ call'[h] = NoCall
           \/ call'[h].inst = call[h].inst /\ call'[h].order = call[h].order
        /\ call'[h].pc \in Made =>
              \/ ReadHoldings(h) /\ call'[h].pc = "saveHoldings"
              \/ /\ CreateTrade(h)
                 /\ call[h].order \cap trades = {}
                 /\ trades' = trades \cup call[h].order
        /\ trades \subseteq trades'
        /\ credited' # credited => SaveHoldings(h)
    BY <1>2, ProcessCall
  <2>0. call[h] \in Call /\ call[h] # NoCall /\ call[h].order \in SUBSET OrderId
    BY <1>2, ProcessFrame, CallFields
  <2>2. ReadHoldings(h) => call[h].pc \in Made
    BY DEF ReadHoldings, At, Made
  <2>s. SaveHoldings(h) =>
          /\ call[h].pc \in Made /\ call'[h] = NoCall
          /\ \/ credited' = [id \in OrderId |-> credited[id] + IF id \in call[h].order THEN 1 ELSE 0]
             \/ credited' = credited
    BY <2>0, GotoFacts DEF SaveHoldings, At, Made, Fills
  <2>3. \A g \in Handler : call'[g] # NoCall => \A id \in call'[g].order : id.inst = call'[g].inst
    BY <2>0, <2>1 DEF CallInv
  <2>4. CASE SaveHoldings(h)
    <3>1. \A g \in Handler : call'[g].pc \in Made =>
            g # h /\ call'[g] = call[g] /\ call[g].order \cap call[h].order = {}
      BY <2>1, <2>4, <2>s, <1>n DEF CallInv
    <3>2. \A id \in call[h].order : id \in trades /\ credited[id] = 0
      BY <2>4, <2>s DEF CallInv
    <3>3. \A id \in OrderId : /\ id \notin call[h].order => credited'[id] = credited[id]
                              /\ id \in call[h].order => credited'[id] \in {0, 1}
      BY <2>4, <2>s, <3>2 DEF ReportsTypeOK
    <3>4. \A id \in OrderId : credited'[id] <= 1 /\ (credited'[id] = 1 => id \in trades')
      BY <2>1, <3>2, <3>3 DEF CallInv
    <3>5. \A g \in Handler : call'[g].pc \in Made =>
            \A id \in call'[g].order : id \in trades' /\ credited'[id] = 0
      <4> SUFFICES ASSUME NEW g \in Handler, call'[g].pc \in Made, NEW id \in call'[g].order
                   PROVE  id \in trades' /\ credited'[id] = 0
        OBVIOUS
      <4>1. call[g].pc \in Made /\ id \in call[g].order /\ id \notin call[h].order
        BY <3>1
      <4>2. id \in OrderId
        BY <4>1, <1>n, CallAt, CallFields
      <4>3. id \in trades /\ credited[id] = 0
        BY <4>1 DEF CallInv
      <4>4. QED BY <2>1, <3>3, <4>1, <4>2, <4>3
    <3>6. QED BY <2>3, <3>1, <3>4, <3>5 DEF CallInv
  <2>5. CASE credited' = credited
    <3>1. CASE call'[h].pc \in Made => ReadHoldings(h)
      <4>1. \A g \in Handler : call'[g].pc \in Made => call[g].pc \in Made /\ call'[g].order = call[g].order
        BY <2>1, <2>2, <3>1, <1>n
      <4>2. QED BY <2>1, <2>3, <2>5, <4>1 DEF CallInv
    <3>2. CASE /\ call'[h].pc \in Made
               /\ call[h].order \cap trades = {}
               /\ trades' = trades \cup call[h].order
      <4>1. call'[h].order = call[h].order
        BY <2>1, <3>2, <1>n
      <4>2. \A g \in Handler \ {h} : call'[g].pc \in Made =>
              call[g].pc \in Made /\ call'[g] = call[g] /\ call[g].order \subseteq trades
        BY <2>1 DEF CallInv
      <4>3. \A id \in call[h].order : credited[id] = 0
        <5>1. \A id \in call[h].order : id \in OrderId /\ id \notin trades
          BY <2>0, <3>2
        <5>2. \A id \in call[h].order : credited[id] <= 1 /\ credited[id] # 1 /\ credited[id] \in Nat
          BY <5>1 DEF CallInv, ReportsTypeOK
        <5>3. QED BY <5>2
      <4>4. \A g \in Handler : call'[g].pc \in Made =>
              \A id \in call'[g].order : id \in trades' /\ credited'[id] = 0
        BY <2>1, <2>5, <3>2, <4>1, <4>2, <4>3 DEF CallInv
      <4>5. \A g1, g2 \in Handler :
              call'[g1].pc \in Made /\ call'[g2].pc \in Made /\ call'[g1].order \cap call'[g2].order # {}
                => g1 = g2
        BY <3>2, <4>1, <4>2 DEF CallInv
      <4>6. QED BY <2>1, <2>3, <2>5, <4>4, <4>5 DEF CallInv
    <3>3. QED BY <2>1, <3>1, <3>2
  <2>6. QED BY <2>1, <2>4, <2>5
<1>3. QED BY <1>1, <1>2

\* However often a report arrives, and whatever crashes, fails or overlaps, its fill is
\* added to the holdings at most once.
THEOREM Credited == ReportsSpec => []CreditedOnce
<1>1. ReportsInit => CallInv
  BY DEF ReportsInit, CallInv, NoCall, Made
<1>2. ReportsTypeOK /\ CallInv /\ [ReportsNext]_allVars => CallInv'
  BY CallStep
<1>3. CallInv => CreditedOnce
  BY DEF CallInv, CreditedOnce
<1>4. QED BY <1>1, <1>2, <1>3, ReportsTyping, PTL DEF ReportsSpec

-----------------------------------------------------------------------------
(* Holdings                                                                 *)

\* The ticks of i work on the same copies of the row: one that has decided nothing may
\* have left, and no other has begun.
TicksKept(i) ==
  \A k \in Slot :
    \/ tick'[i][k] = tick[i][k]
    \/ tick[i][k].pc \notin Issuing /\ tick'[i][k].pc \notin Working
    \/ /\ tick[i][k].pc \in Working /\ tick'[i][k].pc \in Working
       /\ tick'[i][k].book = tick[i][k].book
       /\ tick'[i][k].pc \notin Issuing => tick[i][k].pc \notin Issuing

\* The calls that book for i are the same.
CallsKept(i) ==
  \A h \in Handler :
    \/ call'[h] = call[h]
    \/ /\ call[h].pc \notin Booking \/ call[h].inst # i
       /\ call'[h].pc \notin Booking \/ call'[h].inst # i

LEMMA HeldKept ==
  ASSUME NEW i \in Instance, SharedInv(i), TicksKept(i), portfolio'[i].book = portfolio[i].book
  PROVE  /\ Held(i)' = Held(i)
         /\ \A k1, k2 \in WorkingOn(i)' : k1 = k2
         /\ \A k \in WorkingOn(i)' :
              /\ portfolio'[i].book \subseteq tick'[i][k].book
              /\ tick'[i][k].pc \notin Issuing => tick'[i][k].book = portfolio'[i].book
<1>1. \A k \in WorkingOn(i)' :
        /\ k \in WorkingOn(i) /\ tick'[i][k].book = tick[i][k].book
        /\ tick'[i][k].pc \notin Issuing => tick[i][k].pc \notin Issuing
  BY DEF TicksKept, WorkingOn
<1>2. \A k \in WorkingOn(i) :
        \/ k \in WorkingOn(i)' /\ tick'[i][k].book = tick[i][k].book
        \/ tick[i][k].book = portfolio[i].book
  BY DEF TicksKept, WorkingOn, SharedInv
<1>3. Held(i)' = Held(i)
  BY <1>1, <1>2 DEF Held
<1>4. QED BY <1>1, <1>3 DEF SharedInv

LEMMA CalledForKept ==
  ASSUME NEW i \in Instance, CallsKept(i), NEW pcs \in SUBSET Booking
  PROVE  CalledFor(i, pcs)' = CalledFor(i, pcs)
BY DEF CalledFor, CallsKept

\* A step that touches none of the places a trade of i can be in.
LEMMA SharedKept ==
  ASSUME NEW i \in Instance, SharedInv(i), TicksKept(i), CallsKept(i),
         portfolio'[i].book = portfolio[i].book, added'[i] = added[i],
         TradesOf(i)' = TradesOf(i),
         \A id \in filled' : id.inst = i => id \in filled
  PROVE  SharedInv(i)'
<1>1. /\ Held(i)' = Held(i)
      /\ \A k1, k2 \in WorkingOn(i)' : k1 = k2
      /\ \A k \in WorkingOn(i)' :
              /\ portfolio'[i].book \subseteq tick'[i][k].book
              /\ tick'[i][k].pc \notin Issuing => tick'[i][k].book = portfolio'[i].book
  BY HeldKept
<1>2. Made \subseteq Booking /\ {"createTrade"} \subseteq Booking
  BY DEF Made, Booking
<1>3. /\ CalledFor(i, Made)' = CalledFor(i, Made)
      /\ CalledFor(i, {"createTrade"})' = CalledFor(i, {"createTrade"})
  BY <1>2, CalledForKept
<1>4. \A id \in filled' : id.inst = i => id \in trades' \cup CalledFor(i, {"createTrade"})'
  BY <1>3 DEF SharedInv, TradesOf
<1>5. QED BY <1>1, <1>3, <1>4 DEF SharedInv

LEMMA UntouchedTicks ==
  ASSUME NEW i \in Instance, Untouched(i)
  PROVE  TicksKept(i) /\ portfolio'[i].book = portfolio[i].book /\ TradesOf(i)' = TradesOf(i)
BY DEF Untouched, TicksKept

\* A working tick that neither loads, books nor commits.
LEMMA OwnTicks ==
  ASSUME TypeOK, NEW i \in Instance, NEW k \in Slot,
         \/ RunStep(i, k) \/ PersistRuntime(i, k) \/ WriteOrder(i, k)
         \/ RejectOrder(i, k) \/ SendCommand(i, k) \/ SkipTrade(i, k)
  PROVE  TicksKept(i) /\ portfolio' = portfolio /\ trades' = trades
<1> DEFINE t == tick[i][k]
<1>0. t \in Tick
  BY DEF TypeOK
<1>1. portfolio' = portfolio /\ trades' = trades
  BY DEF RunStep, PersistRuntime, WriteOrder, RejectOrder, SendCommand, SkipTrade, rows
<1>i. "persist" \notin Issuing /\ "step" \notin Issuing /\ {"persist", "step"} \cup Issuing \subseteq Working
  BY DEF Issuing, Working
<1>2. ASSUME NEW u, Resume(i, k, u), t.pc \in Working, u.pc \in Working, u.book = t.book,
             u.pc \notin Issuing => t.pc \notin Issuing
      PROVE  TicksKept(i)
  <2>1. tick'[i][k] = u /\ \A k1 \in Slot \ {k} : tick'[i][k1] = tick[i][k1]
    BY <1>2, Resumed
  <2>2. QED BY <2>1, <1>2 DEF TicksKept
<1>3. CASE RunStep(i, k)
  <2>1. PICK intents \in SUBSET Engine :
          Resume(i, k, [t EXCEPT
            !.pc = "persist", !.hadRt = runtime[i].exists, !.intents = intents, !.left = intents,
            !.rt = [exists |-> TRUE, macroBar |-> MacroTimer(i, intents, t.bar)]])
    BY <1>3 DEF RunStep
  <2>2. PICK u : u = [t EXCEPT
            !.pc = "persist", !.hadRt = runtime[i].exists, !.intents = intents, !.left = intents,
            !.rt = [exists |-> TRUE, macroBar |-> MacroTimer(i, intents, t.bar)]]
    OBVIOUS
  <2>3. u.pc = "persist" /\ u.book = t.book
    BY <1>0, <2>2 DEF Tick
  <2>4. t.pc = "step"
    BY <1>3 DEF RunStep
  <2>5. QED BY <1>1, <1>2, <1>i, <2>1, <2>2, <2>3, <2>4
<1>4. CASE PersistRuntime(i, k)
  <2>1. PICK u : u = [t EXCEPT !.pc = IF t.left = {} THEN "commit" ELSE "order", !.ts = clock]
    OBVIOUS
  <2>2. u.pc \in Issuing /\ u.book = t.book
    BY <1>0, <2>1 DEF Tick, Issuing
  <2>3. Resume(i, k, u) /\ t.pc = "persist"
    BY <1>4, <2>1 DEF PersistRuntime
  <2>4. QED BY <1>1, <1>2, <1>i, <2>2, <2>3
<1>5. CASE WriteOrder(i, k)
  <2>1. PICK u : u = [t EXCEPT !.pc = "send"]
    OBVIOUS
  <2>2. u.pc \in Issuing /\ u.book = t.book
    BY <1>0, <2>1 DEF Tick, Issuing
  <2>3. Resume(i, k, u) /\ t.pc \in Issuing
    BY <1>5, <2>1 DEF WriteOrder, Issuing
  <2>4. QED BY <1>1, <1>2, <1>i, <2>2, <2>3
<1>6. CASE RejectOrder(i, k) \/ SendCommand(i, k)
  <2>1. AfterOrder(t).pc \in Issuing /\ AfterOrder(t).book = t.book
    BY <1>0 DEF AfterOrder, Tick, Issuing
  <2>2. Resume(i, k, AfterOrder(t)) /\ t.pc \in Issuing
    BY <1>6 DEF RejectOrder, SendCommand, AfterRejectedOrder, Issuing
  <2>3. QED BY <1>1, <1>2, <1>i, <2>1, <2>2
<1>7. CASE SkipTrade(i, k)
  <2>1. AfterTrade(t).pc \in Issuing /\ AfterTrade(t).book = t.book
    BY <1>0 DEF AfterTrade, Tick, Issuing
  <2>2. Resume(i, k, AfterTrade(t)) /\ t.pc \in Issuing
    BY <1>7 DEF SkipTrade, Issuing
  <2>3. QED BY <1>1, <1>2, <1>i, <2>1, <2>2
<1>8. QED BY <1>1, <1>3, <1>4, <1>5, <1>6, <1>7

\* A tick loads the row: it works alone, or i is disturbed.
LEMMA LoadShared ==
  ASSUME ReportsTypeOK, NEW i \in Instance, NEW k \in Slot, SharedInv(i),
         LoadRow(i, k), i \notin disturbed'
  PROVE  SharedInv(i)'
<1> DEFINE t == tick[i][k]
<1>0. t \in Tick /\ TypeOK
  BY DEF ReportsTypeOK, TypeOK
<1>1. UNCHANGED <<portfolio, trades, added, filled, call>> /\ WorkingOn(i) = {}
  BY DEF LoadRow, LoadPortfolio, Disturb, rows
<1>2. PICK u : u = [t EXCEPT !.pc = "step", !.book = portfolio[i].book]
  OBVIOUS
<1>3. u.pc = "step" /\ u.book = portfolio[i].book
  BY <1>0, <1>2 DEF Tick
<1>4. Resume(i, k, u)
  BY <1>2 DEF LoadRow, LoadPortfolio
<1>5. tick'[i][k] = u /\ \A k1 \in Slot \ {k} : tick'[i][k1] = tick[i][k1]
  BY <1>0, <1>4, Resumed
<1>6. /\ \A k1 \in WorkingOn(i)' : k1 = k
      /\ tick'[i][k].book = portfolio[i].book
  BY <1>1, <1>3, <1>5 DEF WorkingOn
<1>7. Held(i)' = Held(i)
  BY <1>1, <1>6 DEF Held
<1>8. /\ CalledFor(i, Made)' = CalledFor(i, Made)
      /\ CalledFor(i, {"createTrade"})' = CalledFor(i, {"createTrade"})
  BY <1>1 DEF CalledFor
<1>9. QED BY <1>1, <1>6, <1>7, <1>8 DEF SharedInv, TradesOf

\* A tick books a trade: it is the first to, or i is disturbed.
LEMMA BookShared ==
  ASSUME ReportsTypeOK, NEW i \in Instance, NEW k \in Slot, SharedInv(i),
         BookTrade(i, k), UNCHANGED reportVars, i \notin disturbed'
  PROVE  SharedInv(i)'
<1> DEFINE t == tick[i][k]
           id == IdOf(i, Current(t), t)
<1>0. t \in Tick /\ TypeOK
  BY DEF ReportsTypeOK, TypeOK
<1>1. id \in OrderId /\ id.inst = i
  BY <1>0, CurrentType DEF IdOf
<1>2. UNCHANGED <<portfolio, added, filled, call>> /\ t.pc = "trade"
  BY DEF BookTrade, reportVars
<1>3. trades' = trades \cup {id} /\ id \notin trades
  BY DEF BookTrade, Disturb
<1>4. PICK u : u = AfterTrade([t EXCEPT !.book = @ \cup {id}])
  OBVIOUS
<1>5. u.pc \in Issuing /\ u.book = t.book \cup {id}
  <2>1. PICK v : v = [t EXCEPT !.book = @ \cup {id}]
    OBVIOUS
  <2>2. v \in Tick /\ v.book = t.book \cup {id}
    BY <1>0, <1>1, <2>1 DEF Tick
  <2>3. AfterTrade(v).pc \in Issuing /\ AfterTrade(v).book = v.book
    BY <2>2 DEF AfterTrade, Tick, Issuing
  <2>4. QED BY <1>4, <2>1, <2>2, <2>3
<1>6. Resume(i, k, u)
  BY <1>4 DEF BookTrade
<1>7. tick'[i][k] = u /\ \A k1 \in Slot \ {k} : tick'[i][k1] = tick[i][k1]
  BY <1>0, <1>6, Resumed
<1> HIDE DEF t, id
<1>8. k \in WorkingOn(i) /\ k \in WorkingOn(i)' /\ WorkingOn(i)' = WorkingOn(i)
  BY <1>2, <1>5, <1>7 DEF WorkingOn, Working, Issuing, t
<1>9. \A k1 \in WorkingOn(i) : k1 = k
  BY <1>8 DEF SharedInv
<1>10. Held(i)' = Held(i) \cup {id}
  BY <1>1, <1>2, <1>5, <1>7, <1>8, <1>9 DEF Held, t
<1>11. TradesOf(i)' = TradesOf(i) \cup {id} /\ id \notin TradesOf(i)
  BY <1>1, <1>3 DEF TradesOf
<1>12. /\ CalledFor(i, Made)' = CalledFor(i, Made)
       /\ CalledFor(i, {"createTrade"})' = CalledFor(i, {"createTrade"})
  BY <1>2 DEF CalledFor
<1>13. \A k1 \in WorkingOn(i)' :
         /\ portfolio'[i].book \subseteq tick'[i][k1].book
         /\ tick'[i][k1].pc \in Issuing
  BY <1>2, <1>5, <1>7, <1>8, <1>9 DEF SharedInv, t
<1>14. QED BY <1>2, <1>3, <1>8, <1>9, <1>10, <1>11, <1>12, <1>13 DEF SharedInv

\* A tick commits: the row and its fills are the ones it has loaded, or i is raced.
LEMMA CommitShared ==
  ASSUME ReportsTypeOK, NEW i \in Instance, NEW k \in Slot, SharedInv(i),
         CommitRowAndFills(i, k), i \notin disturbed', i \notin raced'
  PROVE  SharedInv(i)'
<1> DEFINE t == tick[i][k]
<1>0. t \in Tick /\ TypeOK /\ t.book \in SUBSET OrderId
  BY DEF ReportsTypeOK, TypeOK, Tick
<1>1. UNCHANGED <<trades, filled, call>> /\ t.pc = "commit"
  BY DEF CommitRowAndFills, CommitTick
<1>2. portfolio' = [portfolio EXCEPT ![i] = CommitRow(i, t)]
  BY DEF CommitRowAndFills, CommitTick, Disturb
<1>3. portfolio'[i].book = t.book
  BY <1>0, <1>2 DEF CommitRow, TypeOK
<1>4. added'[i] = added[i]
  BY DEF CommitRowAndFills, RaceUnless, Row, ReportsTypeOK
<1>5. Resume(i, k, Idle)
  BY DEF CommitRowAndFills, CommitTick
<1>6. tick'[i][k] = Idle /\ \A k1 \in Slot \ {k} : tick'[i][k1] = tick[i][k1]
  BY <1>0, <1>5, Resumed
<1>7. k \in WorkingOn(i) /\ \A k1 \in WorkingOn(i) : k1 = k
  BY <1>1 DEF WorkingOn, Working, Issuing, SharedInv
<1>8. WorkingOn(i)' = {}
  BY <1>6, <1>7 DEF WorkingOn, Idle, Working, Issuing
<1>9. portfolio[i].book \subseteq t.book
  BY <1>7 DEF SharedInv
<1> HIDE DEF t
<1>10. Held(i)' = Held(i)
  BY <1>3, <1>7, <1>8, <1>9 DEF Held, t
<1>11. /\ CalledFor(i, Made)' = CalledFor(i, Made)
       /\ CalledFor(i, {"createTrade"})' = CalledFor(i, {"createTrade"})
  BY <1>1 DEF CalledFor
<1>12. QED BY <1>1, <1>4, <1>8, <1>10, <1>11 DEF SharedInv, TradesOf

\* A save from a reading that is still the row changes nothing but the fills.
LEMMA SaveRowUnraced ==
  ASSUME ReportsTypeOK, NEW h \in Handler, call[h] \in Call, NEW fills \in SUBSET OrderId,
         SaveRow(h, fills), call[h].inst \notin raced'
  PROVE  portfolio' = portfolio /\ added'[call[h].inst] = added[call[h].inst] \cup fills
<1> DEFINE i == call[h].inst
<1>0. i \in Instance
  BY CallFields
<1>1. [row |-> call[h].row, added |-> call[h].added] = Row(i)
  BY <1>0 DEF SaveRow, RaceUnless
<1>2. call[h].row = portfolio[i] /\ call[h].added = added[i]
  BY <1>1 DEF Row
<1>3. portfolio' = [portfolio EXCEPT ![i] = portfolio[i]]
      /\ added' = [added EXCEPT ![i] = added[i] \cup fills]
  BY <1>2 DEF SaveRow
<1>4. QED BY <1>0, <1>3 DEF ReportsTypeOK, TypeOK

\* The ticks and the other parts of a row after a step of Process that writes no row.
LEMMA ProcessHeld ==
  ASSUME ReportsTypeOK, NEW i \in Instance, SharedInv(i), UNCHANGED tick,
         portfolio'[i].book = portfolio[i].book
  PROVE  /\ TicksKept(i)
         /\ Held(i)' = Held(i)
         /\ \A k1, k2 \in WorkingOn(i)' : k1 = k2
         /\ \A k \in WorkingOn(i)' :
              /\ portfolio'[i].book \subseteq tick'[i][k].book
              /\ tick'[i][k].pc \notin Issuing => tick'[i][k].book = portfolio'[i].book
<1>1. TicksKept(i)
  BY DEF TicksKept
<1>2. QED BY <1>1, HeldKept

\* A call for another instance.
LEMMA ProcessElsewhere ==
  ASSUME ReportsTypeOK, CallInv, NEW i \in Instance, SharedInv(i),
         NEW h \in Handler, Process(h), call[h].inst # i
  PROVE  SharedInv(i)'
<1>0. call[h] \in Call /\ call[h] # NoCall /\ UNCHANGED tick
  BY ProcessFrame, CallFields
<1>1. /\ \A g \in Handler \ {h} : call'[g] = call[g]
      /\ \/ call'[h] = NoCall
         \/ call'[h].inst = call[h].inst /\ call'[h].order = call[h].order
      /\ trades' # trades => CreateTrade(h)
      /\ filled' # filled => FillOrder(h)
  BY ProcessCall
<1>2. \A id \in call[h].order : id.inst # i
  BY <1>0 DEF CallInv
<1>3. portfolio'[i] = portfolio[i] /\ added'[i] = added[i]
  <2>1. \/ UNCHANGED <<portfolio, added>>
        \/ \E fills : SaveRow(h, fills)
    BY DEF Process, ReadBalances, SaveBalances, FillOrder, CreateTrade, ReadHoldings, SaveHoldings, rows
  <2>2. QED BY <2>1 DEF SaveRow, ReportsTypeOK, TypeOK
<1>4. TradesOf(i)' = TradesOf(i)
  <2>1. trades' = trades \/ trades' = trades \cup call[h].order
    BY <1>1 DEF CreateTrade
  <2>2. QED BY <1>2, <2>1 DEF TradesOf
<1>5. \A id \in filled' : id.inst = i => id \in filled
  <2>1. filled' = filled \/ filled' = filled \cup call[h].order
    BY <1>1 DEF FillOrder
  <2>2. QED BY <1>2, <2>1
<1>6. CallsKept(i)
  BY <1>1 DEF CallsKept, Booking, NoCall
<1>7. TicksKept(i)
  BY <1>0 DEF TicksKept
<1>8. QED BY <1>3, <1>4, <1>5, <1>6, <1>7, SharedKept

\* A call for i.
LEMMA ProcessHere ==
  ASSUME ReportsTypeOK, CallInv, NEW i \in Instance, SharedInv(i),
         NEW h \in Handler, Process(h), call[h].inst = i, i \notin raced'
  PROVE  SharedInv(i)'
<1>0. call[h] \in Call /\ call[h] # NoCall /\ call[h].order \in SUBSET OrderId /\ UNCHANGED tick
  BY ProcessFrame, CallFields
<1>1. /\ \A g \in Handler \ {h} : call'[g] = call[g]
      /\ \/ call'[h] = NoCall
         \/ call'[h].inst = call[h].inst /\ call'[h].order = call[h].order
      /\ call'[h].pc \in Made =>
              \/ ReadHoldings(h) /\ call'[h].pc = "saveHoldings"
              \/ /\ CreateTrade(h) /\ call'[h].pc = "readHoldings"
                 /\ call[h].order \cap trades = {}
                 /\ trades' = trades \cup call[h].order
      /\ call'[h].pc = "createTrade" => FillOrder(h)
      /\ trades' # trades => CreateTrade(h) /\ call'[h].pc = "readHoldings"
      /\ filled' # filled =>
           FillOrder(h) /\ call'[h].pc = "createTrade" /\ filled' = filled \cup call[h].order
  BY ProcessCall
<1>2. \A id \in call[h].order : id.inst = i
  BY <1>0 DEF CallInv
<1>n. NoCall.pc = "idle" /\ "idle" \notin Booking
  BY DEF NoCall, Booking
<1>3. CASE ReadBalances(h)
  <2>1. UNCHANGED <<portfolio, added, trades, filled>> /\ call[h].pc = "readBalances"
    BY <1>3 DEF ReadBalances, At, rows
  <2>2. call'[h].pc \notin Booking
    <3>1. ~ReadHoldings(h) /\ ~CreateTrade(h) /\ ~FillOrder(h)
      BY <2>1 DEF ReadHoldings, CreateTrade, FillOrder, At
    <3>2. QED BY <1>1, <3>1 DEF Booking, Made
  <2>3. CallsKept(i) /\ TicksKept(i)
    BY <1>0, <1>1, <2>1, <2>2 DEF CallsKept, TicksKept, Booking
  <2>4. QED BY <2>1, <2>3, SharedKept DEF TradesOf
<1>4. CASE SaveBalances(h)
  <2>1. UNCHANGED <<trades, filled>> /\ call[h].pc = "saveBalances"
    BY <1>4 DEF SaveBalances, At
  <2>2. call'[h].pc \notin Booking
    <3>1. ~ReadHoldings(h) /\ ~CreateTrade(h) /\ ~FillOrder(h)
      BY <2>1 DEF ReadHoldings, CreateTrade, FillOrder, At
    <3>2. QED BY <1>1, <3>1 DEF Booking, Made
  <2>3. CallsKept(i) /\ TicksKept(i)
    BY <1>0, <1>1, <2>1, <2>2 DEF CallsKept, TicksKept, Booking
  <2>4. SaveRow(h, {}) \/ UNCHANGED <<portfolio, added>>
    BY <1>4 DEF SaveBalances
  <2>5. portfolio' = portfolio /\ added'[i] = added[i]
    <3>1. CASE SaveRow(h, {})
      <4>1. {} \in SUBSET OrderId
        OBVIOUS
      <4>2. portfolio' = portfolio /\ added'[i] = added[i] \cup {}
        BY <1>0, <3>1, <4>1, SaveRowUnraced
      <4>3. QED BY <4>2
    <3>2. QED BY <2>4, <3>1
  <2>6. QED BY <2>1, <2>3, <2>5, SharedKept DEF TradesOf
<1>5. CASE FillOrder(h)
  <2>1. UNCHANGED <<portfolio, added, trades>> /\ call[h].pc = "fillOrder"
    BY <1>5 DEF FillOrder, At, rows
  <2>2. /\ Held(i)' = Held(i)
        /\ \A k1, k2 \in WorkingOn(i)' : k1 = k2
        /\ \A k \in WorkingOn(i)' :
              /\ portfolio'[i].book \subseteq tick'[i][k].book
              /\ tick'[i][k].pc \notin Issuing => tick'[i][k].book = portfolio'[i].book
    BY <1>0, <2>1, ProcessHeld
  <2>3. call'[h].pc \notin Made
    <3>1. ~ReadHoldings(h) /\ ~CreateTrade(h)
      BY <2>1 DEF ReadHoldings, CreateTrade, At
    <3>2. QED BY <1>1, <3>1
  <2>4. CalledFor(i, Made)' = CalledFor(i, Made)
    BY <1>1, <2>1, <2>3 DEF CalledFor, Made
  <2>5. \A id \in filled' : id.inst = i => id \in trades' \cup CalledFor(i, {"createTrade"})'
    <3>1. CalledFor(i, {"createTrade"}) \subseteq CalledFor(i, {"createTrade"})'
      BY <1>1, <2>1 DEF CalledFor
    <3>2. filled' # filled => call[h].order \subseteq CalledFor(i, {"createTrade"})'
      BY <1>0, <1>1, <1>n DEF CalledFor, Booking
    <3>3. QED BY <1>1, <2>1, <3>1, <3>2 DEF SharedInv
  <2>6. QED BY <2>1, <2>2, <2>4, <2>5 DEF SharedInv, TradesOf
<1>6. CASE CreateTrade(h)
  <2>1. UNCHANGED <<portfolio, added, filled>> /\ call[h].pc = "createTrade"
    BY <1>6 DEF CreateTrade, At
  <2>2. /\ Held(i)' = Held(i)
        /\ \A k1, k2 \in WorkingOn(i)' : k1 = k2
        /\ \A k \in WorkingOn(i)' :
              /\ portfolio'[i].book \subseteq tick'[i][k].book
              /\ tick'[i][k].pc \notin Issuing => tick'[i][k].book = portfolio'[i].book
    BY <1>0, <2>1, ProcessHeld
  <2>3. call[h].order \subseteq trades' /\ trades \subseteq trades'
    BY <1>6, <1>0 DEF CreateTrade, RaceUnless
  <2>4. \A id \in filled' : id.inst = i => id \in trades' \cup CalledFor(i, {"createTrade"})'
    <3>1. \A id \in CalledFor(i, {"createTrade"}) :
            id \in CalledFor(i, {"createTrade"})' \/ id \in call[h].order
      BY <1>1 DEF CalledFor
    <3>2. QED BY <2>1, <2>3, <3>1 DEF SharedInv
  <2>5. CASE call'[h].pc \in Made
    <3>1. call[h].order \cap trades = {} /\ trades' = trades \cup call[h].order
      BY <1>1, <2>1, <2>5 DEF ReadHoldings, At
    <3>2. CalledFor(i, Made)' = CalledFor(i, Made) \cup call[h].order
      BY <1>0, <1>1, <1>n, <2>1, <2>5 DEF CalledFor, Made, Booking
    <3>3. TradesOf(i)' = TradesOf(i) \cup call[h].order /\ call[h].order \cap TradesOf(i) = {}
      BY <1>2, <3>1 DEF TradesOf
    <3>4. QED BY <2>1, <2>2, <2>4, <3>2, <3>3 DEF SharedInv
  <2>6. CASE call'[h].pc \notin Made
    <3>1. trades' = trades
      BY <1>1, <2>6 DEF Made
    <3>2. CalledFor(i, Made)' = CalledFor(i, Made)
      BY <1>1, <2>1, <2>6 DEF CalledFor, Made
    <3>3. QED BY <2>1, <2>2, <2>4, <3>1, <3>2 DEF SharedInv, TradesOf
  <2>7. QED BY <2>5, <2>6
<1>7. CASE ReadHoldings(h)
  <2>1. UNCHANGED <<portfolio, added, trades, filled>> /\ call[h].pc = "readHoldings"
    BY <1>7 DEF ReadHoldings, At, rows
  <2>2. /\ Held(i)' = Held(i)
        /\ \A k1, k2 \in WorkingOn(i)' : k1 = k2
        /\ \A k \in WorkingOn(i)' :
              /\ portfolio'[i].book \subseteq tick'[i][k].book
              /\ tick'[i][k].pc \notin Issuing => tick'[i][k].book = portfolio'[i].book
    BY <1>0, <2>1, ProcessHeld
  <2>3. call'[h].pc = "saveHoldings" /\ call'[h].inst = i /\ call'[h].order = call[h].order
    <3>1. "saveHoldings" \in {"readBalances", "saveBalances", "fillOrder"} \cup Booking
      BY DEF Booking
    <3>2. call' = [call EXCEPT ![h].pc = "saveHoldings", ![h].row = portfolio[call[h].inst],
                               ![h].added = added[call[h].inst]]
      BY <1>7 DEF ReadHoldings, RaceUnless
    <3>3. QED BY <1>0, <3>1, <3>2, CallReads
  <2>4. /\ CalledFor(i, Made)' = CalledFor(i, Made)
        /\ CalledFor(i, {"createTrade"})' = CalledFor(i, {"createTrade"})
    BY <1>1, <2>1, <2>3 DEF CalledFor, Made
  <2>5. QED BY <2>1, <2>2, <2>4 DEF SharedInv, TradesOf
<1>8. CASE SaveHoldings(h)
  <2>1. UNCHANGED <<trades, filled>> /\ call[h].pc = "saveHoldings"
    BY <1>8 DEF SaveHoldings, At
  <2>s. SaveRow(h, call[h].order) /\ Return(h)
    BY <1>8 DEF SaveHoldings, Fills, RaceUnless
  <2>t. portfolio' = portfolio /\ added'[i] = added[i] \cup call[h].order
    BY <1>0, <2>s, SaveRowUnraced
  <2>2. /\ Held(i)' = Held(i)
        /\ \A k1, k2 \in WorkingOn(i)' : k1 = k2
        /\ \A k \in WorkingOn(i)' :
              /\ portfolio'[i].book \subseteq tick'[i][k].book
              /\ tick'[i][k].pc \notin Issuing => tick'[i][k].book = portfolio'[i].book
    BY <1>0, <2>t, ProcessHeld
  <2>3. call'[h] = NoCall
    BY <1>0, <2>s, GotoFacts
  <2>4. /\ call[h].order \subseteq CalledFor(i, Made)
        /\ CalledFor(i, Made)' = CalledFor(i, Made) \ call[h].order
    <3>1. \A g \in Handler \ {h} : call[g].pc \in Made => call[g].order \cap call[h].order = {}
      BY <2>1 DEF CallInv, Made
    <3>2. call[h].order \subseteq CalledFor(i, Made)
      BY <1>0, <2>1 DEF CalledFor, Made
    <3>3. \A id \in CalledFor(i, Made)' : id \in CalledFor(i, Made) /\ id \notin call[h].order
      BY <1>1, <1>n, <2>3, <3>1 DEF CalledFor, Made
    <3>4. \A id \in CalledFor(i, Made) : id \in call[h].order \/ id \in CalledFor(i, Made)'
      BY <1>1 DEF CalledFor
    <3>5. QED BY <3>2, <3>3, <3>4
  <2>5. CalledFor(i, {"createTrade"})' = CalledFor(i, {"createTrade"})
    BY <1>1, <1>n, <2>1, <2>3 DEF CalledFor
  <2>6. QED BY <2>1, <2>2, <2>t, <2>4, <2>5 DEF SharedInv, TradesOf
<1>9. QED BY <1>3, <1>4, <1>5, <1>6, <1>7, <1>8 DEF Process

\* The rest of the steps are steps of InstanceTick.
LEMMA BaseSteps ==
  ASSUME [ReportsNext]_allVars, \A h \in Handler : ~Process(h)
  PROVE  [Next]_vars
BY DEF ReportsNext, OtherStep, ExitWithCalls, LoadRow, CommitRowAndFills, OtherTickStep,
       ReceiveReport, allVars, Next, ServerStep, TickStep

\* An instance that is not disturbed or raced now has never been.
LEMMA ExcusesGrow ==
  ASSUME ReportsTypeOK, [ReportsNext]_allVars
  PROVE  disturbed \subseteq disturbed' /\ raced \subseteq raced'
<1>1. ASSUME NEW h \in Handler, Process(h)
      PROVE  disturbed \subseteq disturbed' /\ raced \subseteq raced'
  <2>1. disturbed' = disturbed
    BY <1>1, ProcessFrame
  <2>2. raced \subseteq raced'
    BY <1>1 DEF Process, ReadBalances, SaveBalances, FillOrder, CreateTrade, ReadHoldings, SaveHoldings,
                SaveRow, RaceUnless
  <2>3. QED BY <2>1, <2>2
<1>2. ASSUME \A h \in Handler : ~Process(h)
      PROVE  disturbed \subseteq disturbed' /\ raced \subseteq raced'
  <2>1. [Next]_vars
    BY <1>2, BaseSteps
  <2>2. raced \subseteq raced'
    BY <1>2 DEF ReportsNext, OtherStep, ExitWithCalls, LoadRow, CommitRowAndFills, OtherTickStep,
                ReceiveReport, allVars, reportVars, RaceUnless
  <2>3. QED BY <2>1, <2>2, DisturbedGrows
<1>3. QED BY <1>1, <1>2

LEMMA SharedStep ==
  ASSUME ReportsTypeOK, CallInv, [ReportsNext]_allVars,
         NEW i \in Instance, SharedInv(i), i \notin disturbed', i \notin raced'
  PROVE  SharedInv(i)'
<1>0. TypeOK
  BY DEF ReportsTypeOK
<1>u. ASSUME Untouched(i), UNCHANGED <<added, filled>>, CallsKept(i)
      PROVE  SharedInv(i)'
  BY <1>u, UntouchedTicks, SharedKept
<1>v. UNCHANGED reportVars => UNCHANGED <<added, filled>> /\ CallsKept(i)
  BY DEF reportVars, CallsKept
<1>1. ASSUME NEW h \in Handler, Process(h) PROVE SharedInv(i)'
  BY <1>1, ProcessElsewhere, ProcessHere
<1>2. CASE OtherStep
  <2>1. Untouched(i)
    BY <1>0, <1>2, OtherStepUntouched DEF OtherStep, ServerStep
  <2>2. QED BY <1>2, <1>u, <1>v, <2>1 DEF OtherStep
<1>3. CASE ExitWithCalls
  <2>1. Untouched(i)
    BY <1>0, <1>3, OtherStepUntouched DEF ExitWithCalls, ServerStep
  <2>2. CallsKept(i)
    <3>1. \A h \in Handler : call[h].pc \in Booking => call[h].inst # i
      BY <1>3 DEF ExitWithCalls
    <3>2. \A h \in Handler : call'[h].pc \notin Booking
      BY <1>3 DEF ExitWithCalls, NoCall, Booking
    <3>3. QED BY <3>1, <3>2 DEF CallsKept
  <2>3. QED BY <1>3, <1>u, <2>1, <2>2 DEF ExitWithCalls
<1>4. ASSUME NEW j \in Instance, NEW k \in Slot, j # i,
             LoadRow(j, k) \/ CommitRowAndFills(j, k) \/ OtherTickStep(j, k)
      PROVE  SharedInv(i)'
  <2>1. Untouched(i)
    BY <1>0, <1>4, OtherInstanceUntouched DEF LoadRow, CommitRowAndFills, OtherTickStep, TickStep
  <2>2. added'[i] = added[i] /\ filled' = filled /\ CallsKept(i)
    BY <1>4 DEF LoadRow, CommitRowAndFills, OtherTickStep, reportVars, CallsKept, ReportsTypeOK
  <2>3. QED BY <2>1, <2>2, UntouchedTicks, SharedKept
<1>5. ASSUME NEW k \in Slot, LoadRow(i, k) \/ CommitRowAndFills(i, k) PROVE SharedInv(i)'
  BY <1>5, LoadShared, CommitShared
<1>6. ASSUME NEW k \in Slot, OtherTickStep(i, k) PROVE SharedInv(i)'
  <2>1. UNCHANGED reportVars
    BY <1>6 DEF OtherTickStep
  <2>2. CASE AbortTick(i, k) \/ LoadBar(i, k) \/ SkipBar(i, k) \/ RunStepFails(i, k)
    BY <1>0, <1>u, <1>v, <2>1, <2>2, UndecidedUntouched
  <2>3. CASE \/ RunStep(i, k) \/ PersistRuntime(i, k) \/ WriteOrder(i, k)
             \/ RejectOrder(i, k) \/ SendCommand(i, k) \/ SkipTrade(i, k)
    <3>1. TicksKept(i) /\ portfolio' = portfolio /\ trades' = trades
      BY <1>0, <2>3, OwnTicks
    <3>2. UNCHANGED <<added, filled>> /\ CallsKept(i)
      BY <1>v, <2>1
    <3>3. QED BY <3>1, <3>2, SharedKept DEF TradesOf
  <2>4. CASE BookTrade(i, k)
    BY <2>1, <2>4, BookShared
  <2>5. QED BY <1>6, <2>2, <2>3, <2>4 DEF OtherTickStep
<1>7. ASSUME NEW h \in Handler, NEW j \in Instance, ReceiveReport(h, j) PROVE SharedInv(i)'
  <2>1. /\ call'[h].pc \in {"readBalances", "fillOrder"}
        /\ \A g \in Handler \ {h} : call'[g] = call[g]
    <3>1. PICK order \in {{}} \cup {{id} : id \in {o \in OrderId : o.inst = j /\ sends[o] > 0}},
             pc \in {"readBalances", "fillOrder"} :
          call' = [call EXCEPT ![h] =
            [pc |-> pc, inst |-> j, order |-> order, row |-> portfolio[j], added |-> {}]]
      BY <1>7 DEF ReceiveReport
    <3>2. QED BY <3>1 DEF ReportsTypeOK
  <2>2. call[h] = NoCall
    BY <1>7 DEF ReceiveReport
  <2>3. CallsKept(i)
    BY <2>1, <2>2 DEF CallsKept, Booking, NoCall
  <2>4. TicksKept(i) /\ UNCHANGED <<portfolio, added, trades, filled>>
    BY <1>7 DEF ReceiveReport, vars, TicksKept
  <2>5. QED BY <2>3, <2>4, SharedKept DEF TradesOf
<1>8. CASE UNCHANGED allVars
  <2>1. UNCHANGED reportVars /\ TicksKept(i) /\ UNCHANGED <<portfolio, added, trades, filled>>
    BY <1>8 DEF allVars, vars, reportVars, TicksKept
  <2>2. QED BY <1>v, <2>1, SharedKept DEF TradesOf
<1>9. QED BY <1>1, <1>2, <1>3, <1>4, <1>5, <1>6, <1>7, <1>8 DEF ReportsNext

THEOREM Reports == ReportsSpec => []ReportsInv
<1>1. ReportsInit => ReportsInv
  <2> SUFFICES ASSUME ReportsInit PROVE ReportsInv
    OBVIOUS
  <2>1. CallInv
    BY DEF ReportsInit, CallInv, NoCall, Made
  <2>2. ASSUME NEW i \in Instance PROVE SharedInv(i)
    <3>1. WorkingOn(i) = {} /\ Held(i) = {} /\ TradesOf(i) = {} /\ added[i] = {} /\ filled = {}
      BY DEF ReportsInit, Init, WorkingOn, Idle, Working, Issuing, Held, TradesOf
    <3>2. CalledFor(i, Made) = {}
      BY DEF ReportsInit, CalledFor, NoCall, Made
    <3>3. QED BY <3>1, <3>2 DEF SharedInv
  <2>3. QED BY <2>1, <2>2 DEF ReportsInv
<1>2. ReportsTypeOK /\ ReportsInv /\ [ReportsNext]_allVars => ReportsInv'
  <2> SUFFICES ASSUME ReportsTypeOK, ReportsInv, [ReportsNext]_allVars PROVE ReportsInv'
    OBVIOUS
  <2>1. CallInv'
    BY CallStep DEF ReportsInv
  <2>2. ASSUME NEW i \in Instance, i \notin disturbed' \cup raced' PROVE SharedInv(i)'
    <3>1. SharedInv(i)
      BY <2>2, ExcusesGrow DEF ReportsInv
    <3>2. QED BY <2>2, <3>1, SharedStep DEF ReportsInv
  <2>3. QED BY <2>1, <2>2 DEF ReportsInv
<1>3. QED BY <1>1, <1>2, ReportsTyping, PTL DEF ReportsSpec

\* Between ticks and reports, the holdings of an instance that was neither disturbed nor
\* raced account for the trades on record, each once, and no filled order is missing.
THEOREM Holdings == ReportsSpec => []HoldingsAgree
<1>1. ReportsTypeOK /\ ReportsInv => HoldingsAgree
  <2> SUFFICES ASSUME ReportsTypeOK, ReportsInv, NEW i \in Instance, Settled(i), Reported(i), i \notin raced
               PROVE  /\ portfolio[i].book \cap added[i] = {}
                      /\ portfolio[i].book \cup added[i] = {id \in trades : id.inst = i}
                      /\ {id \in filled : id.inst = i} \subseteq trades
    BY DEF HoldingsAgree
  <2>1. SharedInv(i)
    BY DEF ReportsInv, Settled
  <2>2. CalledFor(i, Made) = {} /\ CalledFor(i, {"createTrade"}) = {}
    BY DEF Reported, CalledFor, Made, Booking
  <2>3. portfolio[i].book \in SUBSET OrderId
    BY DEF ReportsTypeOK, TypeOK, Portfolio
  <2>4. Held(i) = portfolio[i].book
    BY <2>1, <2>3 DEF SharedInv, Held, Settled, WorkingOn
  <2>5. QED BY <2>1, <2>2, <2>4 DEF SharedInv, TradesOf
<1>2. QED BY <1>1, Reports, ReportsTyping, PTL

-----------------------------------------------------------------------------
\* The handler writes rows the ticks rely on, but no order and no command: beside it the
\* ticks implement the command outbox as they do alone.
THEOREM ReportsOutbox == ReportsSpec => ImplementsOutbox
<1>1. ReportsInit => OutboxInv /\ Outbox!Init
  BY DEF ReportsInit, Init, OutboxInv, Logged, Idle, Outbox!Init
<1>2. ReportsTypeOK /\ OutboxInv /\ [ReportsNext]_allVars
        => OutboxInv' /\ [Outbox!Next]_(Outbox!outboxVars)
  <2> SUFFICES ASSUME ReportsTypeOK, OutboxInv, [ReportsNext]_allVars
               PROVE  OutboxInv' /\ [Outbox!Next]_(Outbox!outboxVars)
    OBVIOUS
  <2>1. ASSUME NEW h \in Handler, Process(h)
        PROVE  OutboxInv' /\ [Outbox!Next]_(Outbox!outboxVars)
    <3>1. UNCHANGED <<orders, sends, tick>>
      BY <2>1, ProcessFrame
    <3>2. QED BY <3>1 DEF OutboxInv, Logged, Outbox!outboxVars
  <2>2. CASE \A h \in Handler : ~Process(h)
    BY <2>2, BaseSteps, OutboxStep DEF ReportsTypeOK
  <2>3. QED BY <2>1, <2>2
<1>3. QED BY <1>1, <1>2, ReportsTyping, PTL DEF ReportsSpec, ImplementsOutbox, Outbox!Spec
=============================================================================
