------------------------------ MODULE Checkout ------------------------------
(***************************************************************************)
(* The packages that are built from a repository: download_git and         *)
(* download_svn of core.sh leave a checkout below SRC_DIR, which all       *)
(* working directories share, and the rule copies it, patches the copy and *)
(* compiles it.  A rule is interrupted or fails and is run again; what it  *)
(* finds decides what it does.  The rules differ in how they copy.         *)
(*                                                                         *)
(* A tree is abstracted to whether its files are all there, which revision *)
(* they are of, and how much of it is patched.  Patches add no files and   *)
(* fit what they were made for (that those that do not go unnoticed is the *)
(* matter of BuildEngine).                                                 *)
(***************************************************************************)
EXTENDS Integers

CONSTANTS
  Dirs,         \* working directories: clones of one
  Ways,         \* of rules to fetch and copy: see WaysOfRules
  MaxRetries,   \* bound: how often the rule is run in a directory
  Nobody        \* no directory

\* How the rules of the repository fetch and copy.
WaysOfRules ==
  {<<"revision", "plain">>,    \* libatasmart-git, template-git
   <<"revision", "extract">>,  \* kexecboot, host_mtd-utils
   <<"svn", "plain">>,         \* dancesplash, ps3boot, sixaxisd, lib* of netsurf
   <<"svn", "guarded">>,       \* minidesk-utils, minimount-svn, sn-monitor, netsurf-svn
   <<"svn", "into">>,          \* netconfig
   <<"svn", "fresh">>}         \* pyldin601

ASSUME CheckoutAssumption ==
  /\ Ways \subseteq WaysOfRules /\ Nobody \notin Dirs
  /\ MaxRetries \in Nat

VARIABLES
  way,        \* of the rule; it never changes
  checkout,   \* the checkout in SRC_DIR
  locked,     \* a lock of svn in it
  fetching,   \* the directory whose rule runs git or svn, or Nobody
  ruleAt,     \* ruleAt[w]: what the rule does
  tree,       \* tree[w]: the copy in BUILD_DIR
  tries,
  mishaps     \* (history) what went wrong

srcVars      == <<checkout, locked, fetching>>
checkoutVars == <<way, srcVars, ruleAt, tree, tries, mishaps>>

\* "short" lacks files, "default" is of another revision than the rule asks for.
Contents == {"none", "short", "default", "asked"}

NoTree == [is |-> "none", patched |-> "no", stamp |-> FALSE, extracted |-> FALSE]

CheckoutInit ==
  /\ way \in Ways
  /\ checkout = "none" /\ locked = FALSE /\ fetching = Nobody
  /\ ruleAt = [w \in Dirs |-> "idle"]
  /\ tree = [w \in Dirs |-> NoTree]
  /\ tries = [w \in Dirs |-> 0]
  /\ mishaps = {}

Git == way[1] = "revision"
How == way[2]

-----------------------------------------------------------------------------

\* The rule goes on: it has ended when it is idle again, or "installed".
RuleStep(w, from, to) ==
  /\ ruleAt[w] = from
  /\ ruleAt' = [ruleAt EXCEPT ![w] = to]
  /\ UNCHANGED <<way, tries>>

Fine == UNCHANGED mishaps

Mishap(kind) == mishaps' = mishaps \cup {kind}

StartRule(w) ==
  /\ ruleAt[w] = "idle" /\ tries[w] < MaxRetries
  /\ tries' = [tries EXCEPT ![w] = @ + 1]
  /\ ruleAt' = [ruleAt EXCEPT ![w] =
                   IF How = "guarded" /\ tree[w].is # "none" THEN "compile" ELSE "fetch"]
  /\ UNCHANGED <<way, srcVars, tree, mishaps>>

\* Of a checkout with a revision git is not asked again.  Whoever comes while
\* another one fetches takes what is there.
FetchNothing(w) ==
  /\ RuleStep(w, "fetch", "copy")
  /\ checkout # "none"
  /\ Git \/ locked
  /\ IF fetching # Nobody THEN Mishap("race") ELSE Fine
  /\ UNCHANGED <<srcVars, tree>>

\* git clone, svn co, svn update: .git or .svn comes first.
FetchBegin(w) ==
  /\ RuleStep(w, "fetch", "fetching")
  /\ fetching = Nobody
  /\ checkout = "none" \/ (~ Git /\ ~ locked)
  /\ fetching' = w
  /\ checkout' = IF checkout = "none" THEN "short" ELSE checkout
  /\ locked' = ~ Git
  /\ Fine /\ UNCHANGED tree

FetchEnd(w) ==
  /\ RuleStep(w, "fetching", IF Git THEN "checkout" ELSE "copy")
  /\ checkout' = IF Git THEN "default" ELSE "asked"
  /\ locked' = FALSE
  /\ fetching' = IF Git THEN w ELSE Nobody
  /\ Fine /\ UNCHANGED tree

CheckoutRevision(w) ==
  /\ RuleStep(w, "checkout", "copy")
  /\ checkout' = "asked" /\ fetching' = Nobody
  /\ Fine /\ UNCHANGED <<locked, tree>>

\* The network: git removes what it has of a clone, and the rule stops; svn leaves
\* it, unlocked, and the rule goes on.
FetchFails(w) ==
  /\ RuleStep(w, "fetching", IF Git THEN "idle" ELSE "copy")
  /\ checkout' \in IF Git THEN {"none"} ELSE {"short", checkout}
  /\ locked' = FALSE /\ fetching' = Nobody
  /\ Mishap("fetch failed") /\ UNCHANGED tree

RevisionFails(w) ==
  /\ RuleStep(w, "checkout", "idle")
  /\ fetching' = Nobody
  /\ Mishap("revision") /\ UNCHANGED <<checkout, locked, tree>>

\* cp -R.  Plain copies to a tree that is there end up in a directory in it, and
\* extract does not copy twice.  The others overwrite.
Copies(w) ==
  \/ How \in {"into", "fresh"}
  \/ How = "extract" /\ ~ tree[w].extracted
  \/ How \in {"plain", "guarded"} /\ tree[w].is = "none"

\* What was patched is overwritten, though the stamp stays; rm -rf takes it too.
Copied(w, contents) ==
  [is |-> contents, patched |-> "no",
   stamp |-> How # "fresh" /\ tree[w].stamp, extracted |-> How = "extract"]

\* Mutant: extract after an interrupted copy as if it were done.
CopyTreeTrusting(w) ==
  /\ RuleStep(w, "copy", "patch")
  /\ tree' = IF Copies(w) /\ tree[w].is = "none"
             THEN [tree EXCEPT ![w] = Copied(w, checkout)] ELSE tree
  /\ IF fetching # Nobody THEN Mishap("race") ELSE Fine
  /\ UNCHANGED srcVars

CopyTree(w) ==
  /\ RuleStep(w, "copy", "patch")
  /\ tree' = IF Copies(w) THEN [tree EXCEPT ![w] = Copied(w, checkout)] ELSE tree
  /\ IF fetching # Nobody THEN Mishap("race") ELSE Fine
  /\ UNCHANGED srcVars

\* No room.  Only extract looks at what cp says.
CopyFails(w) ==
  /\ Copies(w)
  /\ RuleStep(w, "copy", IF How = "extract" THEN "idle" ELSE "patch")
  /\ tree' = [tree EXCEPT ![w] = [Copied(w, "short") EXCEPT !.extracted = FALSE]]
  /\ Mishap("copy failed") /\ UNCHANGED srcVars

\* apply_patches.  To apply what is applied in part fails, unnoticed.
Patch(w) ==
  /\ RuleStep(w, "patch", "compile")
  /\ tree' = [tree EXCEPT ![w].patched = IF tree[w].stamp THEN @
                                         ELSE IF @ = "no" THEN "yes" ELSE "part",
                          ![w].stamp = TRUE]
  /\ Fine /\ UNCHANGED srcVars

\* configure, make, make install and the stamp; or an error.  A tree that lacks
\* files may still do.
Compile(w) ==
  /\ RuleStep(w, "compile", "installed")
  /\ tree[w].is # "none"
  /\ Fine /\ UNCHANGED <<srcVars, tree>>

CompileFails(w) ==
  /\ RuleStep(w, "compile", "idle")
  /\ Mishap("build") /\ UNCHANGED <<srcVars, tree>>

\* kill -9, or the power goes.
KillRule(w) ==
  \/ /\ RuleStep(w, "fetching", "idle")
     /\ Mishap("fetch killed") /\ fetching' = Nobody
     /\ checkout' \in {"short", checkout}
     /\ UNCHANGED <<locked, tree>>
  \/ /\ RuleStep(w, "checkout", "idle")
     /\ Mishap("revision") /\ fetching' = Nobody
     /\ checkout' \in {"short", "default"}
     /\ UNCHANGED <<locked, tree>>
  \/ /\ RuleStep(w, "copy", "idle") /\ Copies(w)
     /\ Mishap("copy killed")
     /\ tree' = [tree EXCEPT ![w] = [Copied(w, "short") EXCEPT !.extracted = FALSE]]
     /\ UNCHANGED srcVars
  \/ /\ RuleStep(w, "patch", "idle") /\ ~ tree[w].stamp /\ tree[w].is # "none"
     /\ Mishap("patch killed")
     /\ tree' = [tree EXCEPT ![w].patched = "part"]
     /\ UNCHANGED srcVars
  \/ /\ RuleStep(w, "compile", "idle")
     /\ Mishap("build")
     /\ UNCHANGED <<srcVars, tree>>

CheckoutNext ==
  \E w \in Dirs :
    \/ StartRule(w)
    \/ FetchNothing(w) \/ FetchBegin(w) \/ FetchEnd(w) \/ CheckoutRevision(w)
    \/ CopyTree(w) \/ Patch(w) \/ Compile(w)
    \/ FetchFails(w) \/ RevisionFails(w) \/ CopyFails(w) \/ CompileFails(w)
    \/ KillRule(w)

CheckoutSpec == CheckoutInit /\ [][CheckoutNext]_checkoutVars

-----------------------------------------------------------------------------
(* Properties                                                              *)

\* What a rule does not recover from when it is run again, without a word.
HarmTo ==
  [plain   |-> {"copy failed", "copy killed", "patch killed"},
   guarded |-> {"copy failed", "copy killed", "patch killed"},
   into    |-> {"copy failed", "build"},
   fresh   |-> {"copy failed"},
   extract |-> {"patch killed"}]

Harm ==
  {"race", "fetch killed", IF Git THEN "revision" ELSE "fetch failed"} \cup HarmTo[How]

\* What is installed was compiled from all files, of the revision asked for, with
\* all patches: whatever was interrupted or failed before and was done again,
\* unless it is one of the things that this way of copying does not survive.  That
\* a rule which copies plainly survives an interrupted copy, or one that copies
\* into the tree an interrupted build, is what the shell code looks like and what
\* is not so.
InstalledAsAsked ==
  \A w \in Dirs :
    ruleAt[w] = "installed" /\ mishaps \cap Harm = {} =>
      tree[w].is = "asked" /\ tree[w].patched = "yes"
=============================================================================
