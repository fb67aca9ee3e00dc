-------------------------- MODULE CarrierDirectory --------------------------
(***************************************************************************)
(* From a directory and a configuration to the carriers of a volume:       *)
(* StegoConfig, StegoStorage::Configure and Open, LoadDirectory, the order *)
(* of the carriers, the master key and the subkeys.                        *)
(*                                                                         *)
(* Nothing of this is stored.  A volume is found again only if Configure,  *)
(* Open and Load work out the same keys, offsets, permutations and encoder *)
(* as before Save, whatever order the file system lists the directory in,  *)
(* wherever it was copied to, and whatever the process did before.  A      *)
(* picture is what its carrier hid in it: "disk[f]" is the Tag it was      *)
(* hidden under.  Calls that throw before they change anything, and Loads  *)
(* and Saves in another order than Open, Load, Save, are left to           *)
(* StegoStorage.tla.                                                       *)
(***************************************************************************)
EXTENDS Naturals, FiniteSets, Sequences, SequencesExt, FiniteSetsExt, Functions, TLC

CONSTANTS
    File,         \* files in the directory tree, by the folder they are in too
    Stem,         \* Stem[f]: place of f's lower-case file name among all names
    Type,         \* Type[f]: its extension, in lower case
    Capacity,     \* Capacity[f][e]: bytes f takes with encoder e
    Roomless,     \* files with less than a byte of raw capacity
    Broken,       \* files whose carrier cannot be constructed
    Requests,     \* configuration files, as JSON objects
    EnumCalls,    \* arguments <<encoder, global, local>> of the other Configure
    Passwords,
    Filters,      \* filter arguments of Open, as sets of types; {}: none
    Respelled,    \* files whose name may change to upper case and back
    Moved,        \* files that may be moved away and back
    MaxRequests,  \* bound on the Configure calls of a process
    MaxSaves,     \* bound on the Saves of all processes
    None

Encoders == {"lsb", "hamming"}
PermutationTypes == {"identity", "affine", "affine64", "num_feistel", "mix_feistel"}
SupportedFormats == {"jpg", "bmp", "png", "mkv", "mp4"}

ASSUME DirectoryAssumption ==
    /\ IsFiniteSet(File)
    /\ Stem \in [File -> Nat]
    /\ Capacity \in [File -> [Encoders -> Nat]]
    /\ Roomless \subseteq File /\ Broken \subseteq File
    /\ Respelled \subseteq File /\ Moved \subseteq File
    /\ EnumCalls \subseteq Encoders \X PermutationTypes \X PermutationTypes
    /\ MaxRequests \in Nat /\ MaxSaves \in Nat

VARIABLES
    stego,    \* StegoConfig::Instance()
    opened,   \* opened_ of the storage
    password, \* password_hash_ of the manager
    carriers, \* carrier_files_: sequence of [file, local]
    layout,   \* what the loaded carriers work with, or None before Load
    present,  \* the files in the directory
    upper,    \* those that are spelled in upper case
    disk,     \* what is hidden in each file
    given,    \* auxiliary: the Configure calls of this process
    asked,    \* auxiliary: password, configurations and files of the last Open
    saved     \* auxiliary: "asked" at the last Save, and the number of Saves

configVars == <<stego, given>>
storageVars == <<opened, password, carriers, layout, asked>>
directoryVars == <<present, upper>>
vars == <<configVars, storageVars, directoryVars, disk, saved>>

NotConfigured ==
    [initialized |-> FALSE, encoder |-> None, global_perm |-> None, local_perm |-> None,
     include_list |-> {}, file_config |-> << >>]

Init ==
    /\ stego = NotConfigured
    /\ opened = FALSE
    /\ password = None
    /\ carriers = << >>
    /\ layout = None
    /\ present = File \ Broken
    /\ upper = {}
    /\ disk = [f \in File |-> None]
    /\ given = << >>
    /\ asked = None
    /\ saved = None

-----------------------------------------------------------------------------
(* Configuration.                                                          *)

\* ToString of a missing member is the empty string.
Member(config, key) == IF key \in DOMAIN config THEN config[key] ELSE ""
Listed(config, key) == IF key \in DOMAIN config THEN config[key] ELSE {}

GetEncoderType(name) == IF name \in Encoders THEN name ELSE "hamming"
GetPermutationType(name) == IF name \in PermutationTypes THEN name ELSE "mix_feistel"

FileTypes(config) ==
    IF "file_types" \notin DOMAIN config THEN << >>
    ELSE [t \in DOMAIN config["file_types"] |->
             [encoder |-> GetEncoderType(Member(config["file_types"][t], "encoder")),
              permutation |-> GetPermutationType(Member(config["file_types"][t], "permutation"))]]

\* StegoConfig::Init: the two lists are added to, the rest is replaced.
ConfigOf(old, config) ==
    [initialized |-> TRUE,
     encoder |-> GetEncoderType(Member(config, "encoder")),
     global_perm |-> GetPermutationType(Member(config, "glob_perm")),
     local_perm |-> GetPermutationType(Member(config, "local_perm")),
     include_list |-> old.include_list \cup Listed(config, "include_types"),
     file_config |-> FileTypes(config) @@ old.file_config]

Configure(config) ==
    /\ Len(given) < MaxRequests
    /\ stego' = ConfigOf(stego, config)
    /\ given' = Append(given, config)
    /\ UNCHANGED <<storageVars, directoryVars, disk, saved>>

ConfigureEnum(encoder, global, local) ==
    Configure([encoder |-> encoder, global_perm |-> global, local_perm |-> local])

-----------------------------------------------------------------------------
(* The directory, as Open reads it.                                        *)

NormalizedPath(f) == Stem[f]

\* Mutant of CarrierLess: names as they are spelled, upper case first.
CarrierLessAsSpelled(f, g) ==
    IF (f \in upper) = (g \in upper) THEN Stem[f] < Stem[g] ELSE f \in upper

\* CarrierFile::operator<
CarrierLess(f, g) == NormalizedPath(f) < NormalizedPath(g)

CreateFilterFromConfig ==
    IF stego.initialized THEN stego.include_list \cap SupportedFormats ELSE {}

GetFilesInDir(filter) == {f \in present : filter = {} \/ Type[f] \in filter}

\* Files that become carriers, the broken ones among them.
Wanted(filter) ==
    LET used == IF filter = {} THEN CreateFilterFromConfig ELSE filter IN
    {f \in GetFilesInDir(used) \ Roomless : Type[f] \in SupportedFormats}

CreatePermutation(config, type) ==
    IF type \in DOMAIN config.file_config THEN config.file_config[type].permutation
    ELSE config.local_perm

CreateCarrierFile(config, f) == [file |-> f, local |-> CreatePermutation(config, Type[f])]

\* std::sort: any order of the files whose names do not differ.
Sorted(S) ==
    {s \in SetToSeqs(S) : \A i, j \in DOMAIN s : i < j => ~CarrierLess(s[j], s[i])}

Asked(p, filter) ==
    [password |-> p, filter |-> filter, files |-> Wanted(filter), atOpen |-> given, atLoad |-> None]

Open(p, filter) ==
    /\ Wanted(filter) \cap Broken = {}
    /\ \E s \in Sorted(Wanted(filter)) : carriers' = [i \in DOMAIN s |-> CreateCarrierFile(stego, s[i])]
    /\ opened' = TRUE
    /\ password' = p
    /\ layout' = None
    /\ asked' = Asked(p, filter)
    /\ UNCHANGED <<configVars, directoryVars, disk, saved>>

\* Mutant of OpenThrow: opened_ stays what the last Open made it.
OpenThrowStillOpen(p, filter) ==
    /\ Wanted(filter) \cap Broken # {}
    /\ \E S \in SUBSET (Wanted(filter) \ Broken) : \E s \in SetToSeqs(S) :
           carriers' = [i \in DOMAIN s |-> CreateCarrierFile(stego, s[i])]
    /\ password' = p
    /\ layout' = None
    /\ asked' = Asked(p, filter)
    /\ UNCHANGED <<opened, configVars, directoryVars, disk, saved>>

\* The carriers listed before the broken one stay behind, unsorted.
OpenThrow(p, filter) ==
    /\ Wanted(filter) \cap Broken # {}
    /\ \E S \in SUBSET (Wanted(filter) \ Broken) : \E s \in SetToSeqs(S) :
           carriers' = [i \in DOMAIN s |-> CreateCarrierFile(stego, s[i])]
    /\ opened' = FALSE
    /\ password' = p
    /\ layout' = None
    /\ asked' = Asked(p, filter)
    /\ UNCHANGED <<configVars, directoryVars, disk, saved>>

-----------------------------------------------------------------------------
(* Keys and places.                                                        *)

FilesOf(c) == {c[i].file : i \in DOMAIN c}
Files == FilesOf(carriers)

\* GenerateMasterKey: a hash, taken to be without collisions.
MasterKey(p, c) == <<p, [i \in DOMAIN c |-> NormalizedPath(c[i].file)]>>

\* DeriveSubkeys
Subkey(p, c, i) == <<MasterKey(p, c), i - 1, NormalizedPath(c[i].file)>>

\* No file is a carrier twice, so that a sum over the carriers is one over files.
TotalCapacity(F, encoder) == MapThenSumSet(LAMBDA f : Capacity[f][encoder], F)
Offset(c, encoder, i) == TotalCapacity({c[j].file : j \in 1..(i - 1)}, encoder)

Tag(p, c, config, i) ==
    [subkey |-> Subkey(p, c, i), local |-> c[i].local, encoder |-> config.encoder,
     offset |-> Offset(c, config.encoder, i),
     storage |-> <<config.global_perm, TotalCapacity(FilesOf(c), config.encoder)>>]

Place(c, f) == CHOOSE i \in DOMAIN c : c[i].file = f

\* What the carriers c work with, under password p and configuration "config".
LayoutOf(p, c, config) ==
    [f \in {g \in FilesOf(c) : Capacity[g][config.encoder] > 0} |-> Tag(p, c, config, Place(c, f))]

\* Without carriers, or without room, ApplyEncoder throws.
Load ==
    /\ stego.initialized /\ opened /\ layout = None
    /\ carriers # << >> /\ TotalCapacity(Files, stego.encoder) > 0
    /\ layout' = LayoutOf(password, carriers, stego)
    /\ asked' = [asked EXCEPT !.atLoad = given]
    /\ UNCHANGED <<opened, password, carriers, configVars, directoryVars, disk, saved>>

Saves == IF saved = None THEN 0 ELSE saved.saves

Save ==
    /\ opened /\ layout # None
    /\ Saves < MaxSaves
    /\ disk' = [f \in File |-> IF f \in DOMAIN layout THEN layout[f] ELSE disk[f]]
    /\ saved' = [asked |-> asked, saves |-> Saves + 1]
    /\ UNCHANGED <<configVars, storageVars, directoryVars>>

-----------------------------------------------------------------------------
(* Around the library: processes end, files come, go and are respelled.    *)
(* A process that has a volume loaded is left alone with the directory.    *)

Restart ==
    /\ stego' = NotConfigured
    /\ given' = << >>
    /\ opened' = FALSE
    /\ password' = None
    /\ carriers' = << >>
    /\ layout' = None
    /\ asked' = None
    /\ UNCHANGED <<directoryVars, disk, saved>>

MoveFile(f) ==
    /\ ~opened
    /\ present' = IF f \in present THEN present \ {f} ELSE present \cup {f}
    /\ UNCHANGED <<configVars, storageVars, upper, disk, saved>>

Respell(f) ==
    /\ ~opened
    /\ upper' = IF f \in upper THEN upper \ {f} ELSE upper \cup {f}
    /\ UNCHANGED <<configVars, storageVars, present, disk, saved>>

Next ==
    \/ \E config \in Requests : Configure(config)
    \/ \E call \in EnumCalls : ConfigureEnum(call[1], call[2], call[3])
    \/ \E p \in Passwords, filter \in Filters : Open(p, filter) \/ OpenThrow(p, filter)
    \/ Load
    \/ Save
    \/ Restart
    \/ \E f \in Moved : MoveFile(f)
    \/ \E f \in Respelled : Respell(f)

Spec == Init /\ [][Next]_vars

-----------------------------------------------------------------------------
(* Properties.                                                             *)

Tied(f) == \E g \in Files \ {f} : NormalizedPath(g) = NormalizedPath(f)

Loads == layout = None /\ layout' # None

\* CarrierFile::operator<, GetPermKey, DeriveSubkeys: after any way back to the
\* same carriers with the same password and the same Configure calls, every
\* carrier works with the key, the place, the permutations and the encoder its
\* file was written with, unless another carrier has the same name (in another
\* folder, or up to case); those may have changed places.
UntiedFilesAreFound ==
    [][(Loads /\ saved # None /\ Files = saved.asked.files
        /\ asked'.password = saved.asked.password
        /\ asked'.atOpen = saved.asked.atOpen /\ asked'.atLoad = saved.asked.atLoad)
       => \A f \in DOMAIN layout' : Tied(f) \/ disk[f] = layout'[f]]_vars

\* StegoStorage::Open: the carriers an Open that failed has left behind, some of
\* a directory and unsorted, are never those of an open storage.
OpenedIsWhole ==
    opened => /\ Files = asked.files
              /\ \A i, j \in DOMAIN carriers : i < j => Stem[carriers[i].file] <= Stem[carriers[j].file]

=============================================================================
