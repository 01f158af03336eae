---------------------------- MODULE DeviceConfig ----------------------------
(***************************************************************************)
(* The device endpoints of the API gateway next to configuration          *)
(* management, over one devices table:                                    *)
(*   - POST /devices (DeviceRegistry, instantiated here);                 *)
(*   - GET /devices: DeviceHandler.ListDevices, deviceService.ListDevices *)
(*     and the repository's List and Count, two separate queries;         *)
(*   - GET /devices/:id: DeviceHandler.GetDevice, repository GetByID;     *)
(*   - POST /config/execute: ConfigHandler.ExecuteCommand and             *)
(*     configService.ExecuteCommand, which looks the device up and runs   *)
(*     the command over SSH (SSHAdapter.Execute) or, for a mikrotik_api   *)
(*     device, over the RouterOS API (MikrotikAdapter.RunCommandStructured*)
(*     with its command normalisation).                                   *)
(* gin serves every request in its own goroutine: the steps of all        *)
(* requests interleave.                                                   *)
(***************************************************************************)
EXTENDS Integers, FiniteSets, SequencesExt, TagArray

CONSTANTS
  Requests, RequestIp, RequestProtocol, RequestTags, DbErrors, \* registrations
  ListRequests,   \* GET /devices requests (model values)
  PageQueries,    \* what the page and page_size query parameters can hold
  GetRequests,    \* GET /devices/:id requests (model values)
  ConfigRequests, \* POST /config/execute requests (model values)
  UnknownId,      \* a device_id no registration creates
  Words           \* commands, as the sequences of words they consist of

(* A query parameter: missing, not a number, or the decimal n.            *)
ASSUME PageQueries \subseteq [kind : {"absent", "bad", "num"}, n : Int]

(* The tokens a command is made of: a word, "/" or " ".                   *)
Slash == "/"
Space == " "

DeviceIds == Requests \cup {UnknownId}
Forms == {"cli", "slashcli", "api"}
Outcomes == {"ok", "rejected", "lost"}
Conns == {"sshClient", "sshSession", "api"}

VARIABLES
  devices, reqPc,      \* the devices table and the registrations
  listPc, listResp,    \* GET /devices: handler stage and answer
  getResp,             \* GET /devices/:id: status, id asked, tags read
  cfgPc,               \* POST /config/execute: handler stage
  cfgReq,              \* its bound body: device_id, words and form
  row,                 \* the device GetDevice returned
  conns,               \* the SSH client, SSH session, RouterOS connection
  outcome,             \* what running the command gave
  executed,            \* the commands devices received
  cfgCode              \* the status answered

vars == <<devices, reqPc, listPc, listResp, getResp, cfgPc, cfgReq, row,
          conns, outcome, executed, cfgCode>>
cfgVars == <<cfgPc, cfgReq, row, conns, outcome, executed, cfgCode>>
readVars == <<listPc, listResp, getResp>>

Reg == INSTANCE DeviceRegistry

-----------------------------------------------------------------------------
(* strconv.Atoi of c.DefaultQuery(name, default): 0 when it does not     *)
(* parse.                                                                  *)
Atoi(q, default) ==
  CASE q.kind = "absent" -> default
    [] q.kind = "bad"    -> 0
    [] q.kind = "num"    -> q.n

(* Mutant: the page used as parsed, without the page < 1 clamp.          *)
ClampPageUnguarded(page) == page

(* deviceService.ListDevices: page and pageSize clamped, then the offset. *)
ClampPage(page) == IF page < 1 THEN 1 ELSE page
ClampSize(size) == IF size < 1 \/ size > 100 THEN 20 ELSE size

(* repository List: Limit and Offset only when positive, and no ORDER BY: *)
(* the rows of a window are any rows of that many.                        *)
ListWindow(table, limit, offset) ==
  LET n == IF Cardinality(table) > offset
             THEN IF limit < Cardinality(table) - offset
                    THEN limit ELSE Cardinality(table) - offset
             ELSE 0
  IN  {p \in SUBSET table : Cardinality(p) = n}

(* Mutant: Count run with the page's Limit and Offset as well.            *)
CountWindowed(table, limit, offset) ==
  IF Cardinality(table) > offset
    THEN IF limit < Cardinality(table) - offset
           THEN limit ELSE Cardinality(table) - offset
    ELSE 0

(* repository Count: applyFilter only, no Limit or Offset.                *)
CountRows(table, limit, offset) == Cardinality(table)

(* repository GetByID: the row with that id, if there is one.            *)
LookupById(table, id) == {d \in table : d.id = id}

(* The command in the body, in the form a client writes it.               *)
Cli(ws) == FoldLeft(LAMBDA acc, w : IF acc = <<>> THEN <<w>> ELSE acc \o <<Space, w>>,
                    <<>>, ws)
ApiPath(ws) == FoldLeft(LAMBDA acc, w : acc \o <<Slash, w>>, <<>>, ws)
CommandOf(req) ==
  CASE req.form = "cli"      -> Cli(req.words)
    [] req.form = "slashcli" -> <<Slash>> \o Cli(req.words)
    [] req.form = "api"      -> ApiPath(req.words)

(* strings.TrimSpace: the command without its leading and trailing spaces.*)
TrimSpace(cmd) ==
  LET keep == {i \in 1..Len(cmd) : cmd[i] # Space}
  IN  IF keep = {} THEN <<>>
      ELSE SubSeq(cmd, Min(keep), Max(keep))

HasSlashSpace(cmd) == \E i \in 1..(Len(cmd) - 1) : cmd[i] = Slash /\ cmd[i + 1] = Space

(* Mutant: only the words-only form is converted.                         *)
NormalizeWordsOnly(cmd) ==
  IF ~Contains(cmd, Slash)
    THEN <<Slash>> \o ReplaceAll(TrimSpace(cmd), Space, Slash)
    ELSE cmd

(* The normalisation of RunCommandStructured before c.Run.                *)
Normalize(cmd) ==
  IF ~Contains(cmd, Slash)
    THEN <<Slash>> \o ReplaceAll(TrimSpace(cmd), Space, Slash)
  ELSE IF Contains(cmd, Space) /\ ~HasSlashSpace(cmd)
    THEN ReplaceAll(cmd, Space, Slash)
  ELSE cmd

(* Mutant: the client's Close deferred only once a session exists.        *)
CloseLeakingClient(cs) ==
  [k \in Conns |-> IF cs[k] = "open" /\ (k # "sshClient" \/ cs["sshSession"] # "none")
                     THEN "closed" ELSE cs[k]]

(* The deferred Closes at the adapter's return: every connection that was *)
(* opened, whichever return is taken.                                      *)
DeferredClose(cs) ==
  [k \in Conns |-> IF cs[k] = "open" THEN "closed" ELSE cs[k]]

(* configService.ExecuteCommand: the RouterOS API for a mikrotik_api      *)
(* device, SSH for every other protocol.                                   *)
AdapterFor(protocol) ==
  IF protocol = "mikrotik_api" THEN "apiDial" ELSE "sshDial"

NoRow == [id |-> UnknownId, ip |-> "none", protocol |-> "none", tags |-> <<>>]
NoBody == [id |-> UnknownId, words |-> <<>>, form |-> "cli"]
NoList == [code |-> 0, page |-> 0, pageSize |-> 0, offset |-> 0,
           data |-> {}, total |-> 0]

Init ==
  /\ Reg!Init
  /\ listPc = [l \in ListRequests |-> "new"]
  /\ listResp = [l \in ListRequests |-> NoList]
  /\ getResp = [g \in GetRequests |-> [code |-> 0, id |-> UnknownId, tags |-> <<>>]]
  /\ cfgPc = [c \in ConfigRequests |-> "new"]
  /\ cfgReq = [c \in ConfigRequests |-> NoBody]
  /\ row = [c \in ConfigRequests |-> NoRow]
  /\ conns = [c \in ConfigRequests |-> [k \in Conns |-> "none"]]
  /\ outcome = [c \in ConfigRequests |-> "none"]
  /\ executed = {}
  /\ cfgCode = [c \in ConfigRequests |-> 0]

(* A registration step (LookupFound, LookupMissed, LookupFailed, Create). *)
Register(r) ==
  /\ \/ Reg!LookupFound(r) \/ Reg!LookupMissed(r)
     \/ Reg!LookupFailed(r) \/ Reg!Create(r)
  /\ UNCHANGED <<readVars, cfgVars>>

(* GET /devices, first query: the page and page_size parameters through  *)
(* Atoi, clamped by the service, then List; a List error is answered 500.*)
List(l) ==
  /\ listPc[l] = "new"
  /\ \E pq, sq \in PageQueries :
       LET page == Atoi(pq, 1)
           size == Atoi(sq, 20)
           offset == (ClampPage(page) - 1) * ClampSize(size)
       IN  \/ \E data \in ListWindow(devices, ClampSize(size), offset) :
                /\ listPc' = [listPc EXCEPT ![l] = "listed"]
                /\ listResp' = [listResp EXCEPT ![l] =
                                  [code |-> 0, page |-> page, pageSize |-> size,
                                   offset |-> offset, data |-> data, total |-> 0]]
           \/ /\ DbErrors
              /\ listPc' = [listPc EXCEPT ![l] = "answered"]
              /\ listResp' = [listResp EXCEPT ![l] = [NoList EXCEPT !.code = 500]]
  /\ UNCHANGED <<devices, reqPc, getResp, cfgVars>>

(* Second query: Count over the table as it is now; the handler answers  *)
(* 200 with the rows, the total and the page and page_size it parsed.    *)
Count(l) ==
  /\ listPc[l] = "listed"
  /\ listPc' = [listPc EXCEPT ![l] = "answered"]
  /\ \/ listResp' = [listResp EXCEPT ![l].code = 200,
                       ![l].total = CountRows(devices, ClampSize(listResp[l].pageSize),
                                              listResp[l].offset)]
     \/ DbErrors /\ listResp' = [listResp EXCEPT ![l] = [NoList EXCEPT !.code = 500]]
  /\ UNCHANGED <<devices, reqPc, getResp, cfgVars>>

(* GET /devices/:id: GetByID, any error answered 404. gorm reads the    *)
(* tags column in Postgres' output form into StringArray.Scan.            *)
GetDevice(g) ==
  /\ getResp[g].code = 0
  /\ \E id \in DeviceIds :
       \/ \E d \in LookupById(devices, id) :
            getResp' = [getResp EXCEPT ![g] =
                          [code |-> 200, id |-> id, tags |-> Scan(PgArrayOut(d.tags))]]
       \/ /\ LookupById(devices, id) = {} \/ DbErrors
          /\ getResp' = [getResp EXCEPT ![g] = [code |-> 404, id |-> id, tags |-> <<>>]]
  /\ UNCHANGED <<devices, reqPc, listPc, listResp, cfgVars>>

-----------------------------------------------------------------------------
(* POST /config/execute: ShouldBindJSON rejects a body without device_id *)
(* or command (400), or binds one.                                        *)
CfgBind(c) ==
  /\ cfgPc[c] = "new"
  /\ \/ /\ cfgPc' = [cfgPc EXCEPT ![c] = "answered"]
        /\ cfgCode' = [cfgCode EXCEPT ![c] = 400]
        /\ UNCHANGED cfgReq
     \/ \E id \in DeviceIds, ws \in Words, f \in Forms :
          /\ cfgReq' = [cfgReq EXCEPT ![c] = [id |-> id, words |-> ws, form |-> f]]
          /\ cfgPc' = [cfgPc EXCEPT ![c] = "lookup"]
          /\ UNCHANGED cfgCode
  /\ UNCHANGED <<devices, reqPc, readVars, row, conns, outcome, executed>>

(* deviceService.GetDevice: a missing row or a query error is "device not *)
(* found", answered 500; a mikrotik_api device goes to the RouterOS API,  *)
(* every other protocol to SSH, with the hard-coded credentials.          *)
CfgLookup(c) ==
  /\ cfgPc[c] = "lookup"
  /\ \/ \E d \in LookupById(devices, cfgReq[c].id) :
          /\ row' = [row EXCEPT ![c] = d]
          /\ cfgPc' = [cfgPc EXCEPT ![c] = AdapterFor(d.protocol)]
          /\ UNCHANGED cfgCode
     \/ /\ LookupById(devices, cfgReq[c].id) = {}
        /\ cfgPc' = [cfgPc EXCEPT ![c] = "answered"]
        /\ cfgCode' = [cfgCode EXCEPT ![c] = 500]
        /\ UNCHANGED row
     \/ /\ DbErrors
        /\ cfgPc' = [cfgPc EXCEPT ![c] = "answered"]
        /\ cfgCode' = [cfgCode EXCEPT ![c] = 500]
        /\ UNCHANGED row
  /\ UNCHANGED <<devices, reqPc, readVars, cfgReq, conns, outcome, executed>>

(* ssh.Dial to ip:22 with a 5 s timeout: an error returns at once;       *)
(* otherwise the client is open and its Close deferred.                   *)
SshDial(c) ==
  /\ cfgPc[c] = "sshDial"
  /\ \/ /\ conns' = [conns EXCEPT ![c]["sshClient"] = "open"]
        /\ cfgPc' = [cfgPc EXCEPT ![c] = "sshSession"]
        /\ UNCHANGED cfgCode
     \/ /\ cfgPc' = [cfgPc EXCEPT ![c] = "answered"]
        /\ cfgCode' = [cfgCode EXCEPT ![c] = 500]
        /\ UNCHANGED conns
  /\ UNCHANGED <<devices, reqPc, readVars, cfgReq, row, outcome, executed>>

(* client.NewSession: an error returns; otherwise the session is open    *)
(* and its Close deferred.                                                 *)
SshSession(c) ==
  /\ cfgPc[c] = "sshSession"
  /\ \/ /\ conns' = [conns EXCEPT ![c]["sshSession"] = "open"]
        /\ cfgPc' = [cfgPc EXCEPT ![c] = "sshRun"]
        /\ UNCHANGED outcome
     \/ /\ outcome' = [outcome EXCEPT ![c] = "lost"]
        /\ cfgPc' = [cfgPc EXCEPT ![c] = "return"]
        /\ UNCHANGED conns
  /\ UNCHANGED <<devices, reqPc, readVars, cfgReq, row, executed, cfgCode>>

(* The command reaches the device as it is: session.CombinedOutput over  *)
(* SSH, or c.Run of the normalised command over the RouterOS API. It     *)
(* runs ("ok"), runs and fails (a non-zero exit or a !trap), or is lost   *)
(* with the transport.                                                     *)
RunOn(c, via, cmd, next) ==
  /\ \E o \in Outcomes :
       /\ outcome' = [outcome EXCEPT ![c] = o]
       /\ executed' = IF o = "lost" THEN executed
                      ELSE executed \cup {[req |-> c, ip |-> row[c].ip, via |-> via,
                                           cmd |-> cmd, ok |-> o = "ok"]}
  /\ cfgPc' = [cfgPc EXCEPT ![c] = next]
  /\ UNCHANGED <<devices, reqPc, readVars, cfgReq, row, conns, cfgCode>>

SshRun(c) ==
  /\ cfgPc[c] = "sshRun"
  /\ RunOn(c, "ssh", CommandOf(cfgReq[c]), "return")

(* routeros.Dial to ip:8728 (no timeout): an error returns at once;      *)
(* otherwise the connection is open and its Close deferred.               *)
ApiDial(c) ==
  /\ cfgPc[c] = "apiDial"
  /\ \/ /\ conns' = [conns EXCEPT ![c]["api"] = "open"]
        /\ cfgPc' = [cfgPc EXCEPT ![c] = "apiRun"]
        /\ UNCHANGED cfgCode
     \/ /\ cfgPc' = [cfgPc EXCEPT ![c] = "answered"]
        /\ cfgCode' = [cfgCode EXCEPT ![c] = 500]
        /\ UNCHANGED conns
  /\ UNCHANGED <<devices, reqPc, readVars, cfgReq, row, outcome, executed>>

ApiRun(c) ==
  /\ cfgPc[c] = "apiRun"
  /\ RunOn(c, "api", Normalize(CommandOf(cfgReq[c])), "return")

(* The adapter returns: its deferred Closes run, and the handler answers *)
(* 200 with the output, or 500 with the error and the output.            *)
Return(c) ==
  /\ cfgPc[c] = "return"
  /\ conns' = [conns EXCEPT ![c] = DeferredClose(conns[c])]
  /\ cfgCode' = [cfgCode EXCEPT ![c] = IF outcome[c] = "ok" THEN 200 ELSE 500]
  /\ cfgPc' = [cfgPc EXCEPT ![c] = "answered"]
  /\ UNCHANGED <<devices, reqPc, readVars, cfgReq, row, outcome, executed>>

Done ==
  /\ Reg!Done
  /\ \A l \in ListRequests : listPc[l] = "answered"
  /\ \A g \in GetRequests : getResp[g].code # 0
  /\ \A c \in ConfigRequests : cfgPc[c] = "answered"
  /\ UNCHANGED vars

Next ==
  \/ \E r \in Requests : Register(r)
  \/ \E l \in ListRequests : List(l) \/ Count(l)
  \/ \E g \in GetRequests : GetDevice(g)
  \/ \E c \in ConfigRequests :
       \/ CfgBind(c) \/ CfgLookup(c) \/ SshDial(c) \/ SshSession(c) \/ SshRun(c)
       \/ ApiDial(c) \/ ApiRun(c) \/ Return(c)
  \/ Done

Spec == Init /\ [][Next]_vars

-----------------------------------------------------------------------------
Stages == {"new", "lookup", "sshDial", "sshSession", "sshRun", "apiDial",
           "apiRun", "return", "answered"}

TypeOK ==
  /\ devices \subseteq [id : Requests, ip : {RequestIp[r] : r \in Requests},
                        protocol : {RequestProtocol[r] : r \in Requests},
                        tags : Seq(Seq(STRING))]
  /\ reqPc \in [Requests -> {"new", "checked", "rejected", "created", "failed"}]
  /\ listPc \in [ListRequests -> {"new", "listed", "answered"}]
  /\ \A l \in ListRequests :
       /\ listResp[l].code \in {0, 200, 500}
       /\ listResp[l].offset \in Nat
       /\ listResp[l].data \subseteq devices
  /\ \A g \in GetRequests : getResp[g].code \in {0, 200, 404} /\ getResp[g].id \in DeviceIds
  /\ cfgPc \in [ConfigRequests -> Stages]
  /\ \A c \in ConfigRequests :
       /\ cfgReq[c].id \in DeviceIds /\ cfgReq[c].form \in Forms
       /\ row[c] \in devices \cup {NoRow}
  /\ conns \in [ConfigRequests -> [Conns -> {"none", "open", "closed"}]]
  /\ outcome \in [ConfigRequests -> Outcomes \cup {"none"}]
  /\ cfgCode \in [ConfigRequests -> {0, 200, 400, 500}]

(* The comments of configService.ExecuteCommand and RunCommandStructured *)
(* promise that a command written as words ("system resource print"), as *)
(* a CLI path ("/system resource print") or as an API path reaches the   *)
(* RouterOS API as the API path "/system/resource/print".                *)
ApiCommandIsPath ==
  \A e \in executed : e.via = "api" => e.cmd = ApiPath(cfgReq[e.req].words)

(* No /config/execute request leaves an SSH client, an SSH session or a   *)
(* RouterOS connection open once it is answered, whichever of the         *)
(* adapter's returns was taken.                                           *)
ConfigSessionsReleased ==
  \A c \in ConfigRequests :
    cfgPc[c] = "answered" => \A k \in Conns : conns[c][k] # "open"

(* GET /devices runs List and Count as two queries while registrations   *)
(* insert rows: a page with rows on it never reports a total that could  *)
(* not contain the rows before it and on it.                             *)
ListTotalCoversPage ==
  \A l \in ListRequests :
    (listResp[l].code = 200 /\ listResp[l].data # {}) =>
      listResp[l].total >= listResp[l].offset + Cardinality(listResp[l].data)
(* A device read with GET /devices/:id carries the tags it was           *)
(* registered with. The comment of StringArray.Value says Postgres        *)
(* expects the quoted form {"a","b"}; Value writes the elements unquoted, *)
(* and Scan splits Postgres' output without removing its quotes.          *)
TagsReadBack ==
  \A g \in GetRequests :
    getResp[g].code = 200 => getResp[g].tags = RequestTags[getResp[g].id]
====
