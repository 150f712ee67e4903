-------------------------- MODULE ResourceManager --------------------------
(***************************************************************************)
(* The Resource Manager of emu/rsrc/resource_manager.cc over the files of   *)
(* emu/rsrc/resource_file.cc: the application's file and, if one was given, *)
(* a System file behind it.  A resource is copied to the heap the first     *)
(* time it is asked for and then kept for good.  A file is the sequence of  *)
(* its resources, each type's resources in one group.                       *)
(***************************************************************************)
EXTENDS Integers, Sequences, Functions

CONSTANTS
  AppFile, SystemFile   (* sequences of [type, id, name, data]              *)

InFile(r, file) == \E i \in DOMAIN file : file[i] = r
ASSUME ResourceAssumption ==  \* a file numbers the resources of a type
  \A file \in {AppFile, SystemFile} :
    /\ file \in Seq(Range(file))
    /\ \A i, j \in DOMAIN file :
         file[i].type = file[j].type /\ file[i].id = file[j].id => i = j

VARIABLES
  resource_to_handle,  (* by <<type, id>>, which GetUniqueId writes out     *)
  handles,     (* what was copied to each handle AllocateHandleForRegion    *)
               (* returned: handle h is the h-th                            *)
  ResErr,      (* the low-memory global                                     *)
  missing      (* the CHECK of GetResource failed: the process aborted      *)

rmVars == <<resource_to_handle, handles, ResErr, missing>>

ResourceManagerInit ==
  /\ resource_to_handle = [k \in {} |-> 0]
  /\ handles = <<>>
  /\ ResErr = 0 /\ missing = FALSE

(* the first that is wanted, as a set of at most one                       *)
First(file, wanted) ==
  {file[i] : i \in {i \in DOMAIN file :
     file[i] \in wanted /\ \A j \in 1..(i - 1) : file[j] \notin wanted}}
FindByTypeAndId(file, type, id) ==
  First(file, {r \in Range(file) : r.type = type /\ r.id = id})
FindByTypeAndName(file, type, name) ==
  First(file, {r \in Range(file) : r.type = type /\ r.name = name})

Key(r) == <<r.type, r.id>>
NeverCached(key) == FALSE  \* mutant: the cache is not looked at
Cached(key) == key \in DOMAIN resource_to_handle

(* the System file is looked at when the application's has no such resource *)
SystemFirst(type, id) ==  \* mutant: the other way round
  IF FindByTypeAndId(SystemFile, type, id) # {}
  THEN FindByTypeAndId(SystemFile, type, id) ELSE FindByTypeAndId(AppFile, type, id)
Search(type, id) ==
  IF FindByTypeAndId(AppFile, type, id) # {}
  THEN FindByTypeAndId(AppFile, type, id) ELSE FindByTypeAndId(SystemFile, type, id)

(* copies `resource' to a new handle, and remembers it                      *)
Remember(resource) ==
  /\ handles' = Append(handles, resource)
  /\ resource_to_handle' =
       [k \in DOMAIN resource_to_handle \cup {Key(resource)} |->
          IF k = Key(resource) THEN Len(handles) + 1 ELSE resource_to_handle[k]]

(* The handle returned is resource_to_handle'[<<type, id>>].                *)
GetResource(type, id) ==
  /\ ~missing
  /\ \/ /\ Cached(<<type, id>>)
        /\ UNCHANGED <<resource_to_handle, handles, missing>>
     \/ /\ ~Cached(<<type, id>>) /\ Search(type, id) = {}
        /\ missing' = TRUE
        /\ UNCHANGED <<resource_to_handle, handles>>
     \/ /\ ~Cached(<<type, id>>)
        /\ \E resource \in Search(type, id) : Remember(resource)
        /\ UNCHANGED missing
  /\ UNCHANGED ResErr

(* by name only the application's file is searched, but the cache is shared *)
GetResourseByName(type, name) ==
  LET found == FindByTypeAndName(AppFile, type, name)
  IN /\ ~missing
     /\ \/ /\ found = {} /\ ResErr' = -192
           /\ UNCHANGED <<resource_to_handle, handles>>
        \/ \E resource \in found :
             /\ IF Cached(Key(resource))
                THEN UNCHANGED <<resource_to_handle, handles>>
                ELSE Remember(resource)
             /\ UNCHANGED ResErr
     /\ UNCHANGED missing
-----------------------------------------------------------------------------
(* However a resource was asked for and in whatever order, every key has    *)
(* the resource that shadows all others of its type and number (the         *)
(* application's before the System's), and a resource is in the heap once:  *)
(* the copy an application changed is the one everybody gets.               *)
OneCopyOfTheRightOne ==
  /\ \A k \in DOMAIN resource_to_handle :
       LET resource == handles[resource_to_handle[k]] IN
       /\ Key(resource) = k
       /\ ~InFile(resource, AppFile) =>
            /\ InFile(resource, SystemFile)
            /\ \A i \in DOMAIN AppFile : Key(AppFile[i]) # k
  /\ \A g, h \in DOMAIN handles : Key(handles[g]) = Key(handles[h]) => g = h

(* A handle, once returned for a resource, stays that resource's handle.    *)
HandlesStay ==
  [][\A k \in DOMAIN resource_to_handle :
       /\ k \in DOMAIN resource_to_handle'
       /\ resource_to_handle'[k] = resource_to_handle[k]]_rmVars
=============================================================================
