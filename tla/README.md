# A TLA+ model of onomondo-ipa

onomondo-ipa is an IPAd: the agent in an IoT device that manages the profiles of
an eUICC on behalf of a remote eIM (GSMA SGP.32).  The eUICC may be a native IoT
eUICC, or a consumer eUICC whose IoT functions the IPAd emulates
(`cfg->iot_euicc_emu_enabled`).  This directory holds TLA+ models of the IPAd,
the TLC configurations that check them, and proofs that TLAPS checks.

Source files are named without their directory when they lie in
`src/src/ipa/libipa/`; `main.c`, `http.c` and `scard.c` lie in `src/src/ipa/`,
`SGP32Definitions.asn` and `RSPDefinitions.asn` in `src/asn1/`, the runtime of asn1c
in `src/src/ipa/libasn/`.  `PROJECT.json` maps every definition that
models code to its lines: about half of the 10,198 lines of C that are the IPAd's own
(`src/src/ipa` without `libasn`).

Contents: [inventory](#inventory), [modules](#modules-and-how-they-correspond-to-the-code),
[runs](#runs), [fairness](#fairness), [proofs](#proofs), [findings](#findings),
[deviations](#deviations), [what is not modelled](#what-is-not-modelled), [plan](#plan).

## Inventory

The IPAd is one thread.  The application (`main.c`) creates a context, calls
`ipa_init` and then `ipa_poll` again and again; `ipa_poll` runs procedures, and a
procedure is a sequence of calls to the eUICC (ES10b/ES10c, through `es10x.c`,
`euicc.c`, `scard.c`) and to the eIM (ESipa, through `esipa.c`, `http.c`).  There
are no threads and no callbacks but the consent of the user.  What is hard is
failure: each call may be lost on the way there or on the way back, the device
may lose power between any two, the profile that carries the IP connection may be
switched by the very package that has to be reported over it, and a native eUICC
goes on executing after the IPAd has stopped listening.

| Part | State it keeps | Operations | Hard behaviour | Correct when |
|---|---|---|---|---|
| Poll cycle (`ipad.c`, `main.c`) | `proc_eucc_pkg_dwnld_exec_res`, the canaries `check_http`, `check_scard` | `ipa_init`, `ipa_poll`, `ipa_free_ctx` | early returns, crash between polls | the return code tells what the application must do; an open execution is never mixed with a new one |
| Notification delivery (`proc_notif_delivery.c`) | none; the list is on the eUICC | retrieve, send each, remove each | lost answers, list changes between polls | nothing is removed that the eIM has not got; everything reaches it in the end |
| Package retrieval and execution (`proc_eim_pkg_retr.c`, `proc_euicc_pkg_dwnld_exec.c`, `es10b_load_euicc_pkg.c`, `es10b_prfle_rollback.c`) | result in hand, `rollback_iccid` | execute, report, roll back, remove the result and what was acknowledged | the switch may cut the connection; the report is made by a later poll | the eIM knows which profile is enabled; a switch it does not hear of is undone |
| eIM configuration store (`es10b_add_init_eim.c`, `es10b_load_euicc_pkg.c`, `es10b_get_eim_cfg_data.c`) | `nvstate.iot_euicc_emu.eim_cfg_ber`, `association_token_counter` | AddInitialEim, addEim, deleteEim, updateEim, listEim, memory reset | every operation decodes and rewrites the whole list; failure in the middle | an operation changes the entry it names; tokens are assigned once |
| Non volatile state (`ipad.c`, `context.h`, `main.c`) | the nvstate file | serialise, deserialise, save, load | truncated file, other version, crash before saving | the next start finds what the last orderly stop left |
| Indirect profile download (`proc_indirect_prfle_dwnld.c`, `proc_cmn_mtl_auth.c`, `proc_prfle_dwnld.c`, `proc_prfle_inst.c`, `proc_cmn_cancel_sess.c`) | session on the eUICC, at the eIM, its transactionId in the IPAd | authenticate, prepare, get the package, ask the user, load segments, deliver the result, cancel | any call may fail half way; three parties must agree on the outcome | only what was agreed to is installed; no session stays open; the eIM learns what the eUICC decided |
| Automatic enabling (`es10b_enable_using_dd.c`, `es10b_load_euicc_pkg.c`) | `ctx->iot_euicc_emu.auto_enable` (context of the session), `nvstate.iot_euicc_emu.auto_enable` (what is granted) | configureAutoEnable, memory reset, EnableUsingDD | session context left from an earlier download; an order that revokes, lost or half applied | only the profile just installed, only if the last order grants its SM-DP+ |
| eUICC transport (`euicc.c`, `es10x.c`, `scard.c`) | logical channel, card handle, `check_scard`; on the card: blocks collected, response held | terminal capability, manage channel, select; STORE DATA blocks, GET RESPONSE | the reader is shared and no transaction is begun; lost commands and answers; early end; 255 block limit; a channel left open by a crash | requests and responses stay whole and apart, nothing is performed twice, the link comes back |
| ESipa transport (`esipa.c`, `http.c`) | the CURL handle, `check_http` | request with retries, close | late and partial answers on a reused connection; repeated requests; blocking calls | an answer is that of the request just made; a request returns, after exactly the retries configured |
| BPP segmentation (`bpp_segments.c`) with the TLV functions it uses (`utils.c`, `libasn/ber_tlv_*.c`) | none | pure functions | optional parts; length forms at their boundaries | the segments put together are the package |
| Activation code (`activation_code.c`) | none | pure function | optional and empty parts, two prefixes | every part is what stands between its separators |
| eUICC data request (`proc_euicc_data_req.c`) | none | read values, report | reads shared by several values, each may fail | what was asked for and obtained is reported |
| Injection (`proc_eim_pkg_inject.c`) | shares the result in hand | execute a package the application brings | between two polls | does not overwrite an open execution |

Interactions: the poll cycle calls notification delivery, retrieval, execution
and, through retrieval, the download; all of them share the eUICC's store of
notifications.  Every call of theirs goes through one of the two transports, of
which they use what `PeerCall` states.  The store and the poll cycle meet in `load_euicc_pkg_iot_emu`
(PSMOs change profiles, ECOs change the store) and in `eim_id`/`eim_fqdn`, which
`eim_init` reads from the store once.  The download reads the allowed CA from the
store and leaves its result, when it cannot deliver it, to the notification
delivery of a later poll.

## Modules and how they correspond to the code

**IpaPoll** - the poll cycle with notification delivery, package retrieval,
execution, report and rollback.  `pc` names the call the IPAd is about to make;
one action is one call to the eUICC or the eIM together with everything the code
does with its answer up to the next call.  `pending`, `res`, `rollback_iccid`,
`check_scard`, `check_http`, `poll_rc` are the members of `struct ipa_context`
and of the result they are named after; `queue` and `current` are the loop over a
list of notifications.  `ops` and `claim` are the PSMOs still to run and the
profile the results so far claim: under emulation the IPAd runs them (`do_psmo`),
natively the eUICC does (`euicc_psmo`), on its own and also while the IPAd is
down.  `active`, `installed`, `notifs`, `eprs`, `nextSeq` are the eUICC;
`todo`, `eimView`, `delivered` the eIM.  `Crash` and `ipa_free_ctx` lose exactly
the variables of the IPAd.  A call fails in one of four ways (`CardFaults`,
`HttpFaults`): request lost, answer lost, refused, answer unusable; the first two
raise a canary.  For the eIM there is also "emptyErr", an HTTP error status with
an empty body.

**ReportCycle** - what the application that calls `ipa_poll` may rely on: at most
one execution is open, it is reverted at most once, and the return code says
whether one is open.  `IpaPoll` implements it (`ReportCycleSpec`) with `phase`
and `told` computed from `pending`, `reverts`, `pc` and `poll_rc`.

**EimCfgStore** - the emulated eIM configuration and its life in the nvstate
file.  One action per operation of the code, which run one after the other;
what falls between them is `Crash`, `Upgrade`, and the two steps of saving
(`fopen` with "w" truncates, `fwrite` fills).  `cfg` is the decoded
`eim_cfg_ber` (the code decodes, changes and encodes it in each operation, and a
list that fails to encode or is incomplete leaves the old one); `token_counter`
is `association_token_counter`.  `complete_eim_cfg_list` assigns tokens in order,
so that entry `i` gets the counter plus the requests up to `i`, also when a later
entry is refused and the numbers are lost.  `answer.of` stands for the position
of a result in the package result, by which the eIM knows which eCO it answers.

**EimDirectory** - what an eIM may rely on: a map from eIMs to addresses, where an
operation changes the entry it names and its answer tells whether it did.
`EimCfgStore` implements it (`DirectorySpec`).

**ProfileDownload** - one download trigger after the other.  `pc` again names the
next call; `card` is the RSP session of the eUICC, `fate` what it decided about
each download, `results` the installation results it keeps; `opened`, `open` and
`told` are the eIM's side, one with the SM-DP+.  The branches are those of the
procedures: the mutual authentication cancels only after AuthenticateClient, the
download and the installation cancel on every failure, the cancellation goes to
the eUICC first and to the eIM only with its answer, and the procedure ends with
0 in every case.  `segment` counts the calls of LoadBoundProfilePackage, each of
which drops the auto enable data of before.  `auto_enable` is what the eIM granted
(`configureAutoEnable`, from a poll that executes such a package, or the reset),
`saved` its copy in the nvstate file, written by `ipa_free_ctx` only; `order` is
what was last asked for, as far as it must have survived: an orderly restart keeps
it, a crash falls back to the last orderly stop.

**DownloadSession** - what the eIM may rely on for each download: the eUICC
decides once, the eIM is told nothing else than what was decided, a download it
declared failed is not installed, and a result is forgotten only after it was
delivered.  `ProfileDownload` implements it (`DownloadSessionSpec`).

**Es10xTransport** - the link to the eUICC, one command to the card per action.
`pc` names the command `euicc.c` is about to send; `offset`, `block_nr`,
`block_len`, `es10x_res` are the locals of `euicc_transceive_es10x`, `check_scard`
the canary, `link` the PC/SC handle.  The card collects `blocks`, performs a
request at its last one and holds `pendingRes` for GET RESPONSE.  Blocks and
chunks of response are records of request, offset and length, as only these tell
whole from broken.  `OtherCommand` and `OtherReset` are what other applications do
to the card: `scard.c` connects with SCARD_SHARE_SHARED (:74) and begins no
transaction.  `leave`, `ipa_free_ctx` and the three commands of opening are the
restart of the application, which is how it recovers (`main.c` ends on an error).

**EsipaTransport** - the link to the eIM.  `i`, `curl`, `res`, `check_http` are
those of `ipa_esipa_req` and `ipa_http_req`; a connection lives in `curl` until a
failed attempt or `ipa_close` closes it.  Attempts reach the `inbox` of the eIM and
are worked off there in any order, also after the IPAd has given up on them; the
answer comes back in pieces on the `wire`, if its connection is still the one in use.

**PeerCall** - what the procedures rely on in either link: one call at a time, a
peer that performs it at most `AtMost` times, an answer only to a call that was
performed.  `Es10xTransport` implements it with 1 (a command is never repeated),
`EsipaTransport` with `Retries + 1`, both as `CallSpec`.

**Tlv** - tags and lengths as the runtime of asn1c writes them, and the functions
of `utils.c` that read them back: the header parser, the stripping of an envelope,
the search in a tag list.  **BppSegments** - `ipa_bpp_segments_encode` over
packages given by the sizes of their TLVs; a segment is the sequence of pieces of
the package (headers and values) it holds.  **ActivationCode** - the parser, over
sequences of characters.  **EuiccDataReq** - `ipa_proc_euicc_data_req` as a function
of the tags asked for and of what each read of the eUICC gives.

**MCFunctions** evaluates these functions on every input of bounded sets and states
what their results must be, against definitions that do not follow the code: the
package as it is encoded, the list of tags before its encoding, the parts of a code
before they were joined.

**MCIpaPoll**, **MCEimCfgStore**, **MCProfileDownload** define the constants of the
runs.  **IpaPollProofs**, **IpaPollNotifProofs**, **IpaPollReportProofs**,
**EimCfgStoreProofs**, **ProfileDownloadProofs**, **Es10xTransportProofs**,
**EsipaTransportProofs** and **FunctionProofs** hold the theorems, each about the
module it extends.

Some operators are preceded by a variant with the same parameters which a
plausible mistake would make of them; no specification uses them.  Putting one in
place of the operator makes TLC find the property of the same run violated that
`PROJECT.json` lists with it, so every property checked here can fail.

## Runs

| Run | Distinct states | Question |
|---|---|---|
| `ipapoll_emu_reports` | 228,473 | Is what the eIM is told, and what a rollback leaves, right? |
| `ipapoll_emu_faults` | 288,163 | Whatever fails: does the return code tell whether a switch is open, does the cycle implement ReportCycle, is an open switch always resolved, does every notification reach the eIM in the end? |
| `ipapoll_native_faults` | 2,155,218 | A native eUICC executes by itself: is anything removed undelivered, is a confirmed report right? |
| `eimcfg_store` | 302,126 | Are entries complete and tokens unique, in memory and file? Does the store implement EimDirectory? |
| `download_emu` | 1,027,880 | Is only installed what was agreed to, does no session stay open, is only enabled what the last order grants, do eUICC and eIM agree? |
| `es10x_faults` | 405,748 | Do requests and responses stay whole and apart, is nothing performed twice, does the link come back after a crash or a foreign reset? |
| `esipa_faults` | 45,451 | Is an answer the one to the request just made, is a request given up exactly when all its attempts failed, does it always return? |
| `functions_all` | 700,556 | Do the pure functions give what they must on every bounded input? |

The other four runs expect a violation, see [findings](#findings).

*Bounds.*  `MaxOffers = 2` packages: what a package can inherit from an earlier
one is a result in hand, a stale `rollback_iccid` and stored notifications, all of
which the second package meets.  Three profiles where packages switch between
more than two (`emu_reports`, `native_faults`): before, after and a third one a
stale value can point to.  `MaxSeq` lets the packages and rollbacks of both offers store what they store;
beyond it an emulated eUICC stores no further notification, and a native one is not
offered a package it might need more numbers for (`SeqRoom` in the proofs).  `MaxCrashes = 1`: a crash
loses everything but eUICC, eIM and file, so a second one meets nothing the first
did not; and it may fall at every step.  The packages are a switch with rollback,
one back, a swap that deletes the old profile, a switch without rollback, and two
without effect on profiles.  `emu_reports` leaves the eUICC reliable (it may be
busy) because of the first finding; `emu_faults` and `native_faults` have the
faults of both links.  In the store: three eIMs, because a token can be
given twice only if one owner leaves and a third one comes; three tokens;
one upgrade and one crash.  Counter updates appear in
`eimcfg_other_version` only: they change a value nothing else reads.  In the
download: two sessions, so that the second meets what the first left; two
segments, so that there is a first, a last and one to abort in between; an
SM-DP+ of a CA that is not allowed, one that is granted automatic enabling and one
that shares its OID but not its address; two orders, so that one can revoke or
replace the other.  In `es10x_faults` a block has 2 bytes, a cycle 3 blocks and a
response chunk 2: requests of one block, of just the limit (5 and 6 bytes) and
beyond it (7), responses of none, one and two chunks; two requests, so that the
second meets what the first left; one crash and one foreign reset at every step.
In `esipa_faults` two retries give a first, a middle and a last attempt, and two
pieces an answer that can be cut.  `functions_all` takes the lengths on both sides
of every change of form (127/128, 255/256, 65535/65536), tag lists of up to three
of five tags, one of them cut short, activation codes of up to nine parts of up to
two characters, and
packages of up to two TLVs a sequence, where 62 and 65 bytes add up to 127 and to
its neighbours with the other sizes.

*Deadlock* is checked wherever the application can always go on.  It is not in
`esipa_faults` and the two function runs, which stop when the bounded requests are
made and the function has run.

*External parts.*  `Allowed`, `Verdicts`, `Perform`, `Notify` (IpaPoll), `Verdicts`,
`Concludes`, `Session` (ProfileDownload) say what an eUICC does with a call, `eim_takes_result`,
`EimFails`, `Learns` what an eIM does; they are modelled from how the code uses
the answers.  `CardStores`, `CardRefuses`, `CardGives` (Es10xTransport) are the card's side
of STORE DATA and GET RESPONSE, `EimAnswers`, `Complete` (EsipaTransport) the eIM and
libcurl.  `RollbackCarries = {TRUE}` assumes that a native ProfileRollback
answers with a package result.

## Fairness

`IpaPoll!FairSpec`: weak fairness of the IPAd and of the executing eUICC.  It is
justified because every call to a peer returns, with an answer or a timeout
(`http.c:156` sets a timeout, the card reader returns), and because the application
polls again after each return: that is what `enum ipa_poll_rc` (`ipad.h`) asks of
it and what the loop of `main.c` does (lines 279-314).  Nothing is assumed of
the links: `PendingResolved` holds although calls may fail for ever.
`DeliveredEventually` alone assumes more, in its own premise (`Recovering`): a call
which is made again and again succeeds at last (strong fairness of a successful
retrieval and of a successful delivery of each notification).  `ProfileDownload!FairSpec` assumes
the same of the calls (weak) and of the repeated delivery (strong), for
`ResultTold`.  `Es10xTransport!FairSpec`: commands return, the application goes on, and leaves the
context when the canary is set; opening the link again and again succeeds at last
(strong), for `LinkRestored`.  `EsipaTransport!FairSpec`: weak fairness of the IPAd
alone, as `curl_easy_perform` ends with its timeout (`http.c:156`) and `sleep` when
asked; neither network nor eIM is fair, so `CallReturns` does not need an answer.
Crashes are never fair; they are bounded.

## Proofs

All are checked by TLAPS, for every value of the constants that satisfies the named
assumptions: `ConstantsAssumption` (IpaPoll), `StoreAssumption` and `MarkAssumption`
(EimCfgStore), `DownloadAssumption`, `TransportAssumption`, `EsipaAssumption`,
`CodeAssumption` (ActivationCode).  They
say of what kind the constants are, and that a mark (no profile, no file, NULL) is none of
the values it stands apart from; TLC evaluates them in every run.  What else a theorem
about the functions needs is its own hypothesis, and so are the faults that a theorem
excludes.

Every inductive invariant was checked by TLC before it was proved.  That it is kept is
shown action by action; so is each refinement, an action of the model being an
action of the abstract specification or a stutter.

**The poll cycle** (*IpaPollProofs*).  `TypeCorrect` (`TypeOK`) and `PollCodes_Truthful`
(`PollCodeTruthful`).  `IInv == TypeOK /\ Control /\ SeqRoom`.  `PollCodeTruthful` alone
is not inductive: that `pending` implies a result which claims a switch depends on what
the procedure holds at each call.  `Control` states it: in the onset procedure
without `pending` the result claims no change, the rollback is reached only with
`pending`, a package is in hand while it is executed, and the eUICC is busy only
while the IPAd waits or is down.  `SeqRoom` keeps the bound on sequence numbers.

*IpaPollNotifProofs.*  `RemovalSafe` (`RemovedOnlyDelivered`) assumes
`"emptyErr" \notin HttpFaults`: without it the property is false of the code, see the
first of the [deviations](#deviations).  The
strengthening is `Sent`: at a removal, the sequence number in hand was delivered.

*IpaPollReportProofs.*  `PollImplementsReportCycle` (`ReportCycleSpec`) and
`SwitchFailureTold` (`FailedSwitchTold`) hold for all faults.  They rest on `Report`: the
eUICC has reverted exactly if the result in hand says so, and not before that
result exists.  `ConfirmationsTrue` (`ConfirmedViewAccurate`) and `RollbacksRestore`
(`RollbackRestores`) relate four things kept apart: the enabled profile, what the
results claim, the profile a rollback would enable, and what the eIM believes.
`VInv` says at each call how they agree: `Mode` (emulated or native), `Enabled` (the
enabled profile is what the results claim so far), `Remembered` (a rollback will
enable the profile of before), `View` (the eIM knows the base until it takes in a result).
Both have the hypothesis `Reliable`, because the code does not keep them otherwise:

- under emulation, that calls to the consumer eUICC succeed (`CardFaults = {}`): a
  lost answer to EnableProfile is claimed as no change, and a failed read
  of the enabled profile leaves the ICCID of an earlier package, which is the run
  `ipapoll_stale_rollback`;
- natively, that ProfileRollback answers with a package result, and that a package
  which allows rollback switches once.  The native eUICC remembers the profile
  before the last such switch, which after two of them is not that before the
  package.  Calls may fail in any way.

`GivenUpUndone` (`AbandonedSwitchUndone`) also needs calls to a native eUICC to succeed
(`CardFaults = {}`): the one ProfileRollback that is tried may be lost.

**The store** (*EimCfgStoreProofs*).  `StoreTypeCorrect` (`TypeOK`), `TokensNeverReassigned`
(`TokensDistinct`), `ConfiguredTokensOwned` (`ConfiguredTokens`).  `IInv` is `TypeOK`
together with `Sound` for the memory and for a readable file: the list is owned,
every assigned token is at most the counter, and no token has two owners.  The
bound by the counter is what makes a new token new.  The lemmas about `Requests`
say that entries of one list draw different numbers.  `StoreImplementsDirectory`
(`DirectorySpec`) adds `Rested` (a stopped IPAd holds nothing, the file is of no later
version) and lemmas that say what each list operation does to the map the list
stands for: a list with distinct identifiers is a function, and adding, removing or
replacing an entry changes it in one place.

**The download** (*ProfileDownloadProofs*).  `DownloadTypeCorrect` (`TypeOK`),
`InstallsAgreedOnly` (`InstalledAsAgreed`), `ClosesSessions` (`NoSessionLeft`),
`EnablesAsOrdered` (`AutoEnabledAsOrdered`).  `IInv` adds `Control` (which session is in
hand at each call, that its certificate was checked and, before loading, that the user
agreed), `Decisions` (an open session is undecided; the answer in hand is the
decision), `Closed` (from the end of loading on, the eUICC holds no session of this
download) and `Orders` (what is granted is what was last ordered, the copy what was
last kept).  None of the properties is inductive without `Control`, which carries what
an early call established to the late call that relies on it.  `DownloadImplements`
(`DownloadSessionSpec`) assumes `"emptyErr" \notin HttpFaults` and adds `Delivered`: at
the removal of a result the eIM has been told it.  Two consequences are proved of
`DownloadSession` and carried over by the refinement, with the same hypothesis:
`EimAndEuiccAgree` (`Consistent`: no false claim, and no result lost) and
`DecisionsAreFinal` (`Final`).

**The eUICC transport** (*Es10xTransportProofs*).  `Es10xTypeCorrect` (`TypeOK`),
`PerformsWhole` (`PerformedWhole`), `AnswersWhole` (`AnswerWhole`), `LimitIsExact`
(`LimitExact`), `Es10xImplementsCall` (`CallSpec`).  The argument is `Sending`: the
blocks on the card are full and follow one another, and while a request is sent they
are its own blocks so far, or they were dropped (and the exchange is `excused`).  A
last block that does not continue them is refused by the card.  `Receiving` is its
counterpart for the response: what was fetched and what the card holds add up to it.  `Linked`
says that over a valid handle the application is selected, `Answered` that an answer
stays whole over a restart, `Progress` how often the card has performed each request,
from which `AtMost = 1`.  `Es10xCallsAccounted` and `Es10xCallsSettled` are what a caller
makes of it (`Accounted`, `Settled` of PeerCall): nothing is performed twice, and what
has returned is over.

**The ESipa transport** (*EsipaTransportProofs*).  `EsipaTypeCorrect` (`TypeOK`),
`AnswersOwnRequest` (`AnswerIsOwn`), `CanaryIsExact` (`CanaryExact`),
`EsipaImplementsCall` (`CallSpec`), and from it `EsipaCallsAccounted` and
`EsipaCallsSettled`.  The argument is `Exclusive`: the connection in use
carries one attempt of the request in hand, or what is left of its answer, and between
two attempts nothing; for this a failed attempt has to close the connection.
`Performances` bounds what the eIM performs by the attempts it got, counting those
still in its inbox, from which `AtMost = Retries + 1`; `Attempts` bounds the
connections.

**The functions** (*FunctionProofs*).  The properties of `MCFunctions` for all inputs of
the sets its constants describe:

- `HeadersReadBack` (`HeaderReadBack`), for any tags (`TagType`) and any set of lengths of
  32 bits, the longest the encoder and the parsers know (`LengthType`);
- `TagsFoundIffListed` (`TagFoundIffListed`), for lists of any tags and any length
  (`MaxTags \in Nat`);
- `SegmentsPutTogether` (`SegmentsAreThePackage`), for any number of TLVs of any sizes
  (`MaxTlvs \in Nat`, `TlvSizes \subseteq Nat`)
  whose packages the encoder can encode (`PackagesEncodable`: the lengths have 32 bits);
- `SegmentsFitSlots`, for packages with any number of TLVs;
- `DataAnsweredAsObtained` (`DataAsObtained`), without a hypothesis;
- `CodesTakenApart` (`ActivationCodeParsed`), for codes joined from any number of texts of any
  length over any characters (`MaxParts`, `MaxText \in Nat`);
- `EveryCodeSplit`: every sequence of characters is such a code, and `Split` finds its texts.

What `TagsFrom`, `FlattenSeq`, `Number` and `Split` compute for a sequence of any length is proved by
induction.  The library's induction theorems take a predicate as an operator, which no
installed prover instantiates; `Induction` states it for sets (a set with 0 that has
`n + 1` with `n` has all numbers) and follows from `WFMin`, the existence of a minimal
counterexample.

*Only model-checked:* liveness (`PendingResolved`, `DeliveredEventually`, `ResultTold`,
`CallReturns` of both transports, `LinkRestored`), which is out of the prover's reach as
it rests on fairness and ENABLED.  Every invariant and every action property of a passing
run is proved.  The properties of the runs that expect a violation are false.

## Findings

Each is a run that TLC ends with a counterexample.

1. `ipapoll_stale_rollback`: a failed read of the enabled profile leaves the
   rollback ICCID of an earlier package (`es10b_load_euicc_pkg.c:39`), although the
   caller says it is "up to date" (:554).
2. `ipapoll_error_code_seq`: an error code is read as a sequence number, and that
   notification is removed (`proc_euicc_pkg_dwnld_exec.c:128`).
3. `eimcfg_other_version`: the state file of another version makes the IPAd free
   addresses of the process that wrote it (`ipad.c:123`).
4. `functions_segment_127`: the parser of TLV headers fails for a value of 127 bytes
   (`utils.c:320`, `< 0x7f`), and its error code becomes the length of a segment of the
   profile package (`bpp_segments.c:110`).

## Deviations

Differences between code and its comments or definitions that the models follow
the code in, without a run of their own:

- An HTTP error status with an empty body counts as an answer (`http.c:162` looks at
  the CURLcode only), and `dec_handle_notif` takes an empty body for success
  (`esipa_handle_notif.c:52`): the notification is then removed from the eUICC
  without having been delivered.  `emu_reports` has such errors; the runs of
  `RemovedOnlyDelivered` and `DeliveredEventually` and the download have not, as
  those properties are false of the code with them.
- The return code of a failed package execution is never assigned
  (`proc_eim_pkg_retr.c:76`, against :143).  `ExecFails` allows every return code.
- A data request never reports EUICCInfo2: the condition is inverted
  (`proc_euicc_data_req.c:134`); nor the root SM-DS address when the default SM-DP+
  address was asked for too and was read (:138-147).  `DataAsObtained` says so.
- `make_ipa_capabilties` puts each flag into a byte of its own
  (`proc_euicc_data_req.c:37`-77).
- `res_apdu.data` has 255 bytes and receives up to 256 (`euicc.c:50`, :105); the last
  byte falls into padding, and the response stays what it was.
- `esipa_req_retries + 1` wraps to 0 at UINT_MAX (`esipa.c:156`): no attempt is made.
- Compact notifications are delivered and never removed
  (`proc_notif_delivery.c:74`, against the comment in :75 and `src/docs/DESIGN.md:317`).
- `ipa_add_init_eim_cfg` answers as if the configuration had been accepted when it
  was refused (`ipad.c:241`, :216).
- The return code of a successful emulated memory reset is uninitialised
  (`es10b_euicc_mem_rst.c:111`), and the emulated part is cleared before the eUICC
  has agreed to its own.  The decoder of the native answer checks `resetResult`
  three times (:81, :93).
- `updateEim` of an unknown eIM frees an uninitialised pointer
  (`es10b_load_euicc_pkg.c:488`); after the last eIM was deleted the answer is ok,
  not lastEimDeleted (:370, `SGP32Definitions.asn:249`).
- `updateEim` compares the addresses of two counter values, so a value that goes
  back may be taken over or not (`es10b_load_euicc_pkg.c:443`,
  `SGP32Definitions.asn:257`).  `Updated` allows both.
- The indirect download returns 0 also when it failed (`proc_indirect_prfle_dwnld.c:103`,
  :32), and so ends the poll as a success.
- The mutual authentication cancels nothing when it fails before
  AuthenticateClient, so the session the eIM has opened stays
  (`proc_cmn_mtl_auth.c:197`, :215).  `NoSessionLeft` speaks of what comes after.
- An answer with authenticateClientOkDSe only passes the mutual authentication
  and is dereferenced as authenticateClientOkDPe (`proc_cmn_mtl_auth.c:243`,
  `proc_prfle_dwnld.c:38`): the process dies.
- `eim_id` and `eim_fqdn` are read once (`context.h:73`): deleteEim or updateEim of
  the eIM in use takes effect after the next start.
- When the answer of an emulated EnableProfile is lost the eIM is told undefinedError
  although the profile has changed (`es10b_load_euicc_pkg.c:122`), and no rollback
  follows.
- A native eUICC that still holds an undelivered package result may answer
  notificationAndEprList, which the notification delivery does not take
  (`proc_notif_delivery.c:46`).
- The injection overwrites its return code (`proc_eim_pkg_inject.c:346`).

## What is not modelled

- The composition of the procedures with the transports, call by call: the product
  is out of TLC's reach.  IpaPoll and ProfileDownload take an exchange as one step
  that fails in the ways `PeerCall` allows.  They do not have an eIM that performs
  two attempts of one request apart; a report or a notification received twice
  tells the eIM what it knows.
- Direct profile download (`proc_direct_prfle_dwnld.c`, `es9p_*.c`): nothing calls
  it and it uses members that do not exist.  CoAP: not part of the build.
- `listEim` changes nothing.  The eIM configuration calls to a native eUICC are a
  plain exchange.
- A torn state file is one that is not read as of this version; that the garbage in
  it may by chance carry the right version is left out.
- The injection calls `ipa_buf_new` and `ipa_esipa_msg_from_ext_dec`, which do not
  exist, and nothing calls it: it cannot be linked.
- The runtime of asn1c and the code generated from `src/asn1`
  (`src/src/ipa/libasn`, most of the repository's C) but for tags and
  lengths: third-party code without decisions of the IPAd.
- Certificates, signatures, encodings and logging: a verdict of a peer is a choice,
  an answer that does not decode a fault.

## Plan

Done: the poll cycle first, as everything else hangs on it; then the store, whose
operations arrive through it; then the download; then the transports under all of
them, and the pure functions; then the proofs of their safety properties, of all five
refinements, and of the functions for inputs of any size.

What is left is a run of `ResultTold` for a native eUICC and without consent callback.
`download_emu` checks it with emulation and callback only; what is proved of the download
holds for every value of `EmuEnabled` and `ConsentCb`.
