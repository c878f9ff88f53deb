# Formal models of the apitable sources

This directory holds TLA+ models of the TypeScript sources under `src/`. It has:
- TLC configurations that model-check them on small instances;
- TLAPS proofs of the main invariants of the Gantt hook, the attachment preview, the user session and the formula modal;
- proofs that three components refine abstract specifications: the Gantt hook an abstract link store, the formula modal an editor lifecycle, and the session thunks a session store.

`PROJECT.json` lists every component, run, mutant, hazard and theorem. Its `map` links each TLA+ definition to the source lines it translates.

## 1. Inventory

The repository's `src/` contains eight files. They fall into these parts.

| Part | Source | State | Operations | Hard behaviour |
|---|---|---|---|---|
| Gantt dependency line | `gantt_view/hooks/use_gantt_drawing_line.tsx` | store snapshot (link cells, start/end dates), per-client refs `taskBlock`, `isDrawing`, `targetTaskInfo` | drag start, drag move (`checkErrorLine`), drag end (early returns, `SetRecords`) | collaborators write the same cells; every client decides from its last render; `limitSingleRecord` checked on a stale value |
| Data storage provider | `widget-sdk/.../data.storage.provider.ts` | none of its own | `saveOps` forwards ops to `operationExecuted` | the write of every command |
| Attachment preview | `preview_file/preview_main/preview_main.tsx` | `activeIndex`, `officePreviewUrl`, `transformInfo` | arrows, keys, thumbnails, preview-URL effect and answer, zoom, rotate | uncancelled requests answered after the user moves on; index bounds; `initActualScale = -1` |
| User session thunks | `core/src/store/actions/user.ts` | store slices `user.isLogin`, `user.info`, `user.err`, `space.activeId` | `signIn`, `getRegisterCode`, `poll`, `getUserMe`, `getEmailCode`, `updatePwd`, `unBindAccount` and their callbacks | answers in any order; `getState()` read when the answer runs |
| Formula test harness | `formula_parser/__tests__/mock_state.ts` | the test context (field map, record data) | `mergeContext`, `evaluate` | `evaluate` changes its argument in place |
| Formula editor modal | `format_formula/open_formula_modal.tsx` | a DOM container | open, close, save (`removeNode`) | a second removal dereferences a null parent |
| Sort/group rule list | `common_view_set.tsx` | `disableDrag` | render only | rows keyed by index; the reordering is the parent's |
| Member info card | `info_card.tsx` | none | render only | none |

These parts interact in the following ways:
- The Gantt hook writes through the command manager. That reaches the data storage provider's `saveOps`, and the store is shared with every collaborator. The model has several clients with one shared `cell` function.
- The user thunks dispatch into the Redux store. `mock_state.ts` builds the initial store, which the session model uses as its `Init`.

The formula engine described in `spec.md` (lexer, parser, resolver, evaluator, cycle guard) is not under `src/`.

## 2. Modules

### GanttDrawingLine (`use_gantt_drawing_line.tsx`, `saveOps`)

**State:**
- `cell[r]` is the dependency link cell of record `r`: the sequence of source record ids in the shared store.
- `view[c]` is the snapshot client `c` rendered last. It is the `state`/`snapshot` of `useContext(KonvaGridContext)`.
- `limitSingle` is the link field's `limitSingleRecord`.
- `canDraw[c]` stands for `permissions.editable`.
- `drawing`, `taskBlock` and `target` are the refs `isDrawing`, `taskBlock.current` and `targetTaskInfo` of client `c`.

**Actions:**
- `Render(c)` is React re-rendering the hook with the current store.
- `DragStart(c, r)` models the `useEffect` that sets `taskBlock` and `isDrawing`.
- `onDragMove(c, t)` chooses the target under the pointer (`t`, or none). It computes `dashEnabled` with `checkErrorLine`:
  - a self link;
  - a start date that is not after the source's end date;
  - or a link that closes a cycle in the view's link graph. This is `linkCycleEdges`, computed here as a transitive closure.
- `onDragEnd(c)` keeps every early return of the handler:
  - no target;
  - a self link;
  - no permission;
  - a single-record cell that is already full in the client's view.

  Otherwise it writes `[...cellValue, source]`, computed from the view, through `saveOps`.

Dates are constants per record, because no handler of this hook writes them. `MaxLinks` bounds the cell length for TLC. A write that would exceed it is not taken.

`past[r]` is a history variable, not program state: the set of every value cell `r` has held. Every write adds its new value to it. No guard of the hook reads it, so it does not restrict the hook's behaviour. It exists only so that the refinement mapping can say which earlier cell value a write was made from. The model has no fairness, because it checks no liveness property.

### LinkStore (abstract)

`LinkStore.tla` states what the store of link cells promises, without clients or views. Each step appends one record `s` to a cell `c` of `t`, where:
- `s` is not `t`;
- `t` is not already in `c`;
- under `limitSingleRecord`, `c` is empty.

The new cell value is `Append(c, s)`, where `c` is an earlier value of the same cell `t` (a member of `past[t]`), not necessarily its current value. So a write made from a stale render, which overwrites a collaborator's link, is still a step of the abstract store: it loses exactly the links added to that cell since the render. A write built from any other sequence is not a step, for example from another record's cell. `GanttDrawingLine` instantiates it `WITH cell <- cell, past <- past, limitSingle <- limitSingle`. The abstract state is the concrete store and its history. The clients' views, refs and the dates are hidden. The property `ImplementsLinkStore` is `Abstract!Spec`.

### FormulaModal (`open_formula_modal.tsx`)

**State:** for each modal `m` (several may be open, as `mask={false}` does not block the grid):
- `container[m]`: `"none"` before `openFormulaModal`, `"attached"` after `document.body.appendChild`, `"detached"` after `removeChild`;
- `mounted[m]`: the React tree rendered into it;
- `outcome[m]`: open, closed or saved;
- `crashed[m]`: `removeNode` read `container.parentElement!` as null.

**Actions:**
- `openFormulaModal(m)`: create and append the container, then render the modal.
- `onModalClose(m)` and `onModalSave(m)`: each calls `removeNode`, which unmounts and then removes the container, then reports to the caller. Each is guarded by `mounted[m]`: after the unmount, antd's `onCancel` and the popup's `onClose` can no longer fire.

The `mounted[m]` guard is an assumption about code outside `src/`: that the editor calls at most one of `onClose` and `onSave`, once, from one handler. If the editor component could call both from a single event, before React unmounts it, the second call would find the container already detached. `FormulaEditor` is not under `src/`, so the model cannot check this.

### EditorLifecycle (abstract)

`EditorLifecycle.tla` states what an editor promises its caller. Each editor has a phase: `"idle"`, `"open"`, `"closed"` or `"saved"`. `Open(m)` moves it from idle to open. `End(m, result)` moves it from open to closed or saved. An ended editor never reports again.

`FormulaModal` instantiates it `WITH phase <- phaseBar`. In the mapping, an editor is:
- ended (closed or saved) once `outcome[m]` is set;
- open once its container exists;
- idle before that.

The property `ImplementsLifecycle` is `Lifecycle!Spec`.

### PreviewMain (`preview_main.tsx`)

**State:**
- `activeIndex`;
- `officePreviewUrl`, which is a file index standing for the URL returned for that file, or `NoUrl`;
- `inflight`: the files whose URL requests are not yet answered;
- `effectDue`: the `[activeIndex]` effect is pending after a render;
- `transformInfo`: the scale in percent, the rotation in degrees, and `initActualScale` in tenths (`-10` is the code's `-1`).

**Actions:**
- `handlePrev` and `handleNext`: arrows and arrow keys, with their bound checks.
- `SelectThumbnail(i)`.
- `PreviewEffect`: the effect that clears the URL and, for an office document when office preview is enabled, sends `getOfficePreviewUrl`.
- `PreviewResponse(i)`: an answer, successful or not, in any order.
- `onZoom(newScale)`: clamps `newScale` between `MIN_SCALE / initActualScale` and `MAX_SCALE / initActualScale`. `Quot` is JavaScript division on the chosen grid: `ExactScaleAssumption` makes every division exact.
- `onRotate`: a quarter turn more. `MaxRotate` bounds it for TLC.
- `ImageLoaded(a)`: the environment step in which the image reports its actual scale. It is not code of `src/` and is not mapped.

### UserSession (`user.ts`)

One action per thunk callback. Any number of requests are in flight. Each callback is one atomic step, because JavaScript runs callbacks to completion. A `getUserMe` answer carries `needPwd`, `needCreate` and a `spaceId`. `Init` is the user and space slices of the test fixture `mock_state.ts`. The reducers' own initial state is not under `src/`, and the fixture is the only initial store the repository defines. Its `isLogin` is false and no space is active, as on a fresh page load.

### SessionStore (abstract)

`SessionStore.tla` keeps only `isLogin` and `activeId`. It allows three steps:
- `LoginActivate(s)`: log in and activate space `s`, allowed only when no space is active;
- `LoginKeep`: log in and keep the active space;
- `Logout`: clear `isLogin` and keep the space.

`UserSession` instantiates it `WITH isLogin <- isLogin, activeId <- activeId`. The user record, the error, and the requests in flight are hidden. The property `ImplementsSessionStore` is `Session!Spec`. It says that a `getUserMe` answer never switches a space that is already active, because the callback reads `getState()` when it runs, and that a space is chosen only together with a complete login.

### MockEvaluate (`mock_state.ts`)

**State:**
- The test context: the merged field map and the record data.
- For each cell, whether it was given and how many times it was wrapped as `[{type: 1, text}]`.

`Evaluate(isTransform)` is `evaluate`:
- it fills null fields from the fixture;
- it wraps Text cells in place when `isTransform` is set;
- it records what it hands to the engine.

No run checks this module. `evaluate` is test code, and `spec.md` promises nothing about calling it twice on one context. The in-place rewrite it performs is intended by the tests that use it.

## 3. Runs

| Run | Module / cfg | Checks | Result |
|---|---|---|---|
| gantt_links | MCGanttDrawingLine.cfg | TypeOK, LimitRespected, NoSelfLink, ImplementsLinkStore | pass, 81,315 states |
| preview_navigation | MCPreviewMain.cfg | TypeOK, ActiveInRange | pass |
| preview_stale_url | MCPreviewMainStale.cfg | PreviewUrlMatchesActive | violation (code bug) |
| user_session | MCUserSession.cfg | ImplementsSessionStore | pass, 869 states |
| user_session_order | MCUserSessionOrder.cfg | LoggedInUserComplete | violation (spec gap) |
| formula_modal | MCFormulaModal.cfg | TypeOK, NoCrash, ClosedModalRemoved, ImplementsLifecycle | pass, 256 states |
| preview_zoom_unloaded | MCPreviewMainZoom.cfg | ScalePositive | violation (code bug) |

**gantt_links** uses 2 clients (with symmetry), 2 records and cells of up to 2 links. The dates are set so that each case occurs:
- one target is allowed;
- the other is a date conflict.

Two clients are enough for the lost-update and the concurrent single-record race. Each of these needs two writers. Both runs of a race start from the same stale render.

**LimitRespected** states that a single-record link cell never holds two records. It holds because:
- the view a client renders is always a past value of the store;
- a client only appends to the view's cell when that cell is empty;
- the resulting write replaces the cell with a one-element sequence.

So a stale write overwrites rather than grows the cell. **NoSelfLink** states that no task depends on itself.

**ImplementsLinkStore** checks, on the same instance, that every step of the hook is a step of `LinkStore` or leaves the cells and their history unchanged. So every write is an earlier value of the same cell plus one source record: a stale render loses links, but never invents them or copies them from another record.

**formula_modal** opens, closes and saves four modals in any order. **NoCrash** states that `removeNode` never runs on a detached container. **ClosedModalRemoved** states that a closed or saved modal is unmounted and detached. Both could fail if close and save ran after one another on the same modal, as they would without the unmount that precedes removal. **ImplementsLifecycle** checks that each modal reports to its caller once: a save that left the editor mounted would let a later close report a second time.

**preview_zoom_unloaded** exposes a code bug. `initActualScale` is `-1` until the image reports its size, and `MoveTo` resets it on every file switch. A zoom in that window divides by `-1`. Both bounds are then negative, and any positive `newScale` is clamped to `-5`, an image mirrored at the maximum magnification. The zoom scales `{5, 2000}` and the actual scales `{1.0, 2.0}` (in tenths `{10, 20}`) let the clamp hit both bounds.

**preview_navigation** uses three files, two of them documents. **ActiveInRange** states that the arrows, keys and thumbnails never move `activeIndex` outside the file list.

**preview_stale_url** shows the following trace:
1. The user is on document 0, and the effect sends the request for its URL.
2. The user clicks the thumbnail of document 2.
3. The effect clears the URL and sends the request for document 2.
4. The answer for document 0 arrives, and `setOfficePreviewUrl` stores the URL of file 0 while file 2 is shown.

**user_session** checks **ImplementsSessionStore**: a `getUserMe` answer never switches an active space, and only a complete login activates one. **user_session_order** shows that a needCreate answer applied after a complete one leaves `isLogin` true. No step resets it.

No run assumes fairness. Every property is a safety property, so the runs check it against all behaviours, including those that stop. Two configs set `CHECK_DEADLOCK FALSE`:
- MCFormulaModal, which stops once every modal has been opened and closed;
- MCUserSession, where the UI stops calling thunks once `MaxRequests` are issued and all answers are in.

Each property of a passing run has a mutant in `PROJECT.json`: a plausible bug in the mapped code that TLC then catches. The mutants are:
- a dropped bound check;
- `<=` in place of `<`;
- no `limitSingleRecord` check;
- no self-link check;
- a `taskBlock` not set at drag start;
- a write built from the source record's cell instead of the target's (refinement);
- a container rendered without `appendChild`;
- a save that closes as well (a second `removeNode`);
- a save without `removeNode`, which also lets an editor report twice (lifecycle);
- `setActiveSpaceId` hoisted above the needPwd/needCreate return (session store).

## 4. Proofs

Each proof module EXTENDS its component and TLAPS. It proves the invariants for every value of the constants that satisfies the component's named assumptions.

**GanttDrawingLineProofs** (under `ConstantsAssumption`):
- `TypeCorrect`: `Spec => []TypeOK`.
- `LimitRespectedInvariant`: `Spec => []LimitRespected`.
- `NoSelfLinkInvariant`: `Spec => []NoSelfLink`.
- `Refinement`: `Spec => ImplementsLinkStore`.

The invariants are not inductive as they stand. The inductive invariant `IInv` adds three facts:
- `DrawingHasSource`: a drawing client has a source record, so the appended id is a record;
- `ViewNoSelfLink`: no client's view holds a self link;
- `PastHolds`: every cell, in the store and in every view, is in its record's history (used by the refinement).

The second is needed because `onDragEnd` appends to the view's cell, not the store's. A self link absent from the store must also be absent from every past render. For `LimitRespected`, the single-record case of `onDragEnd` writes `Append(<<>>, s)` of length 1. This follows from the guard on the view's cell, so the property does not need the view to agree with the store.

The proof has the following structure:
- `InitIInv` shows that the initial states satisfy `IInv`.
- `NextIInv` has one step per action.
- The lemma `DragEndWrite` collects what a writing `onDragEnd` establishes. `DragEndIInv` and the refinement step both use it.
- The lemma `RangeAppend` gives the range of an appended sequence.

The refinement proof has two parts:
- `InitRefines`: initial states map to initial states.
- `NextRefines`: under `IInv`, each step is either a `LinkStore` step or leaves `cell` and `limitSingle` unchanged.

A writing `onDragEnd` is `Link(t, s, view[c][t])`, and its history update is the one `Link` makes. The witness cell is the view's. The conjunct `PastHolds` of `IInv` shows that it is in `past[t]`: every cell value, and every cell of every client's view, is in the history of its record. It is inductive because a render copies the store, whose cells are in the history, and a write adds its value to the history. The last step combines them with `PTL`.

**PreviewMainProofs** (under `PreviewAssumption`):
- `TypeCorrect` and `ActiveInRangeInvariant`.

`IInv` is `TypeOK /\ ActiveInRange`. The lemma `QuotInt` shows that the zoom bounds are integers. The division of `onZoom` by a negative scale stays in the type, which is why `ScalePositive` fails while `TypeOK` holds.

There are two lemmas about the zoom operators, for every zoom input:
- `ZoomBeforeLoad` states the code bug in general. With `initActualScale` still at `-1`, every positive zoom sets the scale to `-5`. TLC finds only one instance.
- `ZoomAfterLoad` is its correct counterpart. Once the image has reported a positive scale `a`, the scale stays between `MIN_SCALE / a` and `MAX_SCALE / a`.

Neither needs an invariant. Both assume only `TypeOK`, which `TypeCorrect` establishes.

**UserSessionProofs**:
- `TypeCorrect`, the type invariant of the module, which the refinement does not need.
- `Refinement`: `Spec => ImplementsSessionStore`, with no invariant at all.
  - `SuccessRefines` splits a `getUserMe` success into three cases. An incomplete account is a stutter. A complete account with no active space is `LoginActivate(data.spaceId)`. A complete account with a space is `LoginKeep`.
  - A failure is `Logout`.
  - Every other callback leaves both variables unchanged.
- The lemma `AnswerCounters` bounds the request and answer counters.

**FormulaModalProofs**:
- `NoCrashInvariant` and `ClosedModalRemovedInvariant`.
- `IInv` adds `MountedAttached` (a mounted modal's container is attached) and `NotCreatedOpen` (a modal whose container was never created is still open). With them, every close or save finds an attached container.
- `TypeCorrect`: `Spec => []TypeOK`, from the same `IInv`.
- `Refinement`: `Spec => ImplementsLifecycle`. `OpenRefines` uses `NotCreatedOpen`: a container not yet created belongs to an idle editor. `EndRefines` uses `MountedAttached` and `ClosedModalRemoved`: a mounted editor is attached and has not ended, so its phase is open. So the refinement needs the same inductive invariant as the safety properties.

The following stay with TLC:
- liveness: no run checks one now. A property that every link eventually reaches every client's view was dropped. Under weak fairness of `Render` it follows from that fairness alone, since a render copies the whole store, so it said nothing about the hook. TLAPS could not prove it in any case, because it does not reason about fairness and `ENABLED` here;
- the violated properties;
- anything about `ClosesCycle` beyond its type. Its transitive closure is never needed by the invariants, and what a recursive definition computes cannot be proved by induction with the installed provers;
- `MockEvaluate`, which has no run and no property (see section 2).

## 5. Not modelled

- The formula engine: not in `src/`.
- `common_view_set.tsx`: it renders the rule list and passes `onDragEnd`, `deleteItem`, `setField` and `setRules` to the parent. Its only state is `disableDrag`, set on hover. The reordering and deletion it triggers are the parent's, which is not in `src/`, so no property of the list can be stated from the code. The `key={index}` hazard is listed in `PROJECT.json`.
- `info_card.tsx`: rendering only, with no state and no handler that changes state.
- Deletion of a preview file: done by the parent, which is not in `src/`.
- The `SIGN_OUT` reducer: not in `src/`.
- Konva geometry, colours and messages: not relevant to any property.
- `data.storage.provider.ts` beyond `saveOps`: `loadDatasheetPack` has an empty body.

## 6. What remains

1. **Formula cycle guard.** Write a spec-modelled resolver for the cross-datasheet cycle guard of spec §4.7, with a recursive evaluator checked by TLC against a reference.
2. **Duplicate links.** Add a property about duplicate links once it is settled whether `SetRecords` deduplicates link cells (outside `src/`).
3. **Batched transforms.** `useFrameSetState` batches transform updates per animation frame. The model takes each update as atomic.
