----------------------------- MODULE HookTables -----------------------------
(***************************************************************************)
(* The hooks of libhooks.cpp as a table.  The compiler calls the hook of   *)
(* a library function right after the function; for each pointer argument  *)
(* of the call it has pushed one MAAP ("may access alias in parallel")     *)
(* value, first argument on top.  The table is a set of pairs of a name    *)
(* and an entry, which says                                                *)
(*   args    the pointer arguments of the call, in order;                  *)
(*   named   the arguments whose MAAPs the hook pops into a variable, in   *)
(*           the order it pops them ("_" is dropped);                      *)
(*   all     whether it then pops whatever is left of its MAAPs;           *)
(*   when    what its checks wait for: "parallel" code, a "success" of the *)
(*           call in parallel code, or nothing ("always");                 *)
(*   checks  the accesses it checks, in order: their kind, the argument    *)
(*           and the argument whose MAAP guards the check ("ModRef" when   *)
(*           the hook uses no MAAP);                                       *)
(*   fmt     the format interpreter the hook runs, if any.                 *)
(* How many bytes a check spans is left out: a check is known by the       *)
(* argument it starts at.                                                  *)
(***************************************************************************)
EXTENDS Naturals, Sequences

Access(kind, arg, guard) == [kind |-> kind, arg |-> arg, guard |-> guard]
Rd(a) == Access("read", a, a)
Wr(a) == Access("write", a, a)
\* A check that is not filtered by any MAAP.
RdAny(a) == Access("read", a, "ModRef")
WrAny(a) == Access("write", a, "ModRef")

Entry(args, named, all, when, checks, fmt) ==
    [args |-> args, named |-> named, all |-> all, when |-> when, checks |-> checks, fmt |-> fmt]

\* { return; }: scalar arguments only, so no MAAPs either.
Quiet(N) == {<<n, Entry(<<>>, <<>>, FALSE, "never", <<>>, "none")>> : n \in N}
\* Pops every MAAP of the call and checks nothing.
Drops(N, args) == {<<n, Entry(args, <<>>, TRUE, "never", <<>>, "none")>> : n \in N}
\* Pops the MAAP of each argument into its variable, then checks in parallel code.
Checks(N, args, checks) == {<<n, Entry(args, args, FALSE, "parallel", checks, "none")>> : n \in N}
\* The same, and the checks also wait for the result to be a success.
Result(N, args, checks) == {<<n, Entry(args, args, FALSE, "success", checks, "none")>> : n \in N}
\* Keeps the MAAP of the first argument and pops the others unseen.
First(N, args, when, checks) ==
    {<<n, Entry(args, <<args[1]>>, TRUE, when, checks, "none")>> : n \in N}
\* Pops every MAAP unseen, then checks without one.
Blind(N, args, checks) == {<<n, Entry(args, <<>>, TRUE, "parallel", checks, "none")>> : n \in N}
\* if (MAAP_count > 0) MAAPs.pop(), then updates the allocation records, in parallel code or not.
Allocates(N, args, checks) == {<<n, Entry(args, <<"_">>, FALSE, "always", checks, "none")>> : n \in N}
\* Runs a format interpreter over the variable arguments, then checks the buffer.
Formats(N, args, named, fmt, checks) ==
    {<<n, Entry(args, named, TRUE, "success", checks, fmt)>> : n \in N}

(***************************************************************************)
(* Templates shared by the vector intrinsics.                              *)
(***************************************************************************)
MaskedLoads(N) == Checks(N, <<"ptr">>, <<Rd("ptr")>>)
MaskedStores(N) == Checks(N, <<"ptr">>, <<Wr("ptr")>>)
\* The addresses are a vector, hence no pointer argument.
Gathers(N) == Blind(N, <<>>, <<RdAny("addrs")>>)
Scatters(N) == Blind(N, <<>>, <<WrAny("addrs")>>)
X86Gathers(N) == Blind(N, <<"base">>, <<RdAny("base")>>)
NeonLoads(N) == Blind(N, <<"ptr">>, <<RdAny("ptr")>>)
NeonStores(N) == Blind(N, <<"ptr">>, <<WrAny("ptr")>>)
\* The check of an exclusive access is made between begin_atomic and end_atomic.
Ldxr(N) == Checks(N, <<"ptr">>, <<Access("atomic_read", "ptr", "ptr")>>)
Stxr(N) == Checks(N, <<"ptr">>, <<Access("atomic_write", "ptr", "ptr")>>)

(***************************************************************************)
(* The table, in the order of the file.                                    *)
(***************************************************************************)
MaskedIntrinsics ==
    MaskedLoads({"llvm_masked_load_v4i32_p0", "llvm_masked_load_v4i64_p0", "llvm_masked_load_v8i32_p0",
                 "llvm_masked_load_v16i8_p0", "llvm_masked_load_v32i8_p0"})
    \cup MaskedStores({"llvm_masked_store_v4i32_p0", "llvm_masked_store_v4i64_p0",
                     "llvm_masked_store_v8i32_p0"})

GatherIntrinsics ==
    Gathers({"llvm_masked_gather_v4f64_v4p0", "llvm_masked_gather_v4p0_v4p0",
             "llvm_masked_gather_v8f64_v8p0", "llvm_masked_gather_v8i32_v8p0"})
    \cup Scatters({"llvm_masked_scatter_v4f64_v4p0", "llvm_masked_scatter_v4i32_v4p0",
                 "llvm_masked_scatter_v4i64_v4p0", "llvm_masked_scatter_v4p0_v4p0",
                 "llvm_masked_scatter_v8f64_v8p0", "llvm_masked_scatter_v8i32_v8p0"})

X86Intrinsics ==
    X86Gathers({"llvm_x86_avx2_gather_d_d", "llvm_x86_avx2_gather_d_d_256",
                "llvm_x86_avx2_gather_d_pd", "llvm_x86_avx2_gather_d_pd_256"})
    \cup Quiet({"llvm_x86_sse2_pause", "llvm_aarch64_clrex"})
    \cup Drops({"llvm_aarch64_hint"}, <<>>)       \* an unknown hint: the default hook

NeonLoadIntrinsics ==
    Ldxr({"llvm_aarch64_ldxr_p0"}) \cup Stxr({"llvm_aarch64_stxr_p0"})
    \cup NeonLoads({"llvm_aarch64_neon_ld1x2_v4f32_p0", "llvm_aarch64_neon_ld1x2_v8i16_p0",
                  "llvm_aarch64_neon_ld1x2_v16i8_p0", "llvm_aarch64_neon_ld1x3_v4f32_p0",
                  "llvm_aarch64_neon_ld1x4_v4f32_p0", "llvm_aarch64_neon_ld1x4_v16i8_p0",
                  "llvm_aarch64_neon_ld2_v2f32_p0", "llvm_aarch64_neon_ld2_v4f32_p0",
                  "llvm_aarch64_neon_ld4_v4f32_p0"})

NeonStoreIntrinsics ==
    NeonStores({"llvm_aarch64_neon_st1x2_v4f32_p0", "llvm_aarch64_neon_st1x3_v4f32_p0",
                "llvm_aarch64_neon_st1x4_v4f32_p0", "llvm_aarch64_neon_st2_v2i32_p0",
                "llvm_aarch64_neon_st2_v4i32_p0", "llvm_aarch64_neon_st2_v8i8_p0",
                "llvm_aarch64_neon_st3_v2i32_p0", "llvm_aarch64_neon_st3_v4i32_p0",
                "llvm_aarch64_neon_st3_v8i8_p0", "llvm_aarch64_neon_st4_v2i32_p0",
                "llvm_aarch64_neon_st4_v4i32_p0", "llvm_aarch64_neon_st4_v8i8_p0"})

StackIntrinsics ==
    Quiet({"llvm_clear_cache"})
    \cup Drops({"llvm_stacksave_p0", "llvm_stackrestore_p0"}, <<"sp">>)
    \cup Drops({"llvm_get_dynamic_area_offset_i64", "llvm_get_dynamic_area_offset_i32",
                   "llvm_trap"}, <<>>)
    \cup Drops({"llvm_prefetch_p0", "llvm_threadlocal_address_p0"}, <<"addr">>)
    \cup Drops({"llvm_va_start_p0", "llvm_va_end_p0"}, <<"ap">>)
    \cup Checks({"llvm_va_copy"}, <<"dst", "src">>, <<>>)

HooksAtexitToAsin ==
    Drops({"__cxa_atexit"}, <<"func", "arg", "dso_handle">>)
    \cup Formats({"__isoc99_scanf"}, <<"format">>, <<>>, "scanf", <<>>)
    \cup Formats({"__isoc99_sscanf"}, <<"s", "format">>, <<"s">>, "scanf", <<Rd("s")>>)
    \cup Quiet({"abs", "labs", "llabs", "acosf", "acos", "acosl", "acoshf", "acosh", "acoshl"})
    \cup Checks({"access"}, <<"path">>, <<Rd("path")>>)
    \cup Allocates({"aligned_alloc"}, <<>>, <<WrAny("alloc")>>)

HooksAsinToAtol ==
    Quiet({"asinf", "asin", "asinl", "asinhf", "asinh", "asinhl", "atanf", "atan", "atanl",
           "atan2f", "atan2", "atan2l", "atanhf", "atanh", "atanhl"})
    \cup Checks({"atof", "atoi", "atol", "atoll"}, <<"str">>, <<Rd("str")>>)

HooksBcmpToCos ==
    Checks({"bcmp"}, <<"s1", "s2">>, <<Rd("s1"), Rd("s2")>>)
    \cup Quiet({"cabs", "cabsf", "cabsl", "cbrtf", "cbrt", "cbrtl", "ceil", "ceilf", "ceill",
              "copysign", "copysignf", "copysignl", "cosf", "cos", "cosl", "coshf"})
    \cup Allocates({"calloc"}, <<>>, <<WrAny("alloc")>>)
    \cup Drops({"clearerr"}, <<"stream">>)

HooksCoshToExecve ==
    Quiet({"cosh", "coshl", "div", "ldiv", "lldiv", "erff", "erf", "erfl"})
    \cup First({"execl", "execlp"}, <<"filename", "arg">>, "parallel", <<Rd("filename")>>)
    \cup First({"execv"}, <<"filename", "argv">>, "parallel", <<Rd("filename")>>)
    \cup {<<"execvP", Entry(<<"filename", "search_path", "argv">>, <<"filename", "search_path">>,
                          TRUE, "parallel", <<Rd("filename"), Rd("search_path")>>, "none")>>}
    \cup First({"execve"}, <<"filename", "argv", "envp">>, "parallel", <<Rd("filename")>>)

HooksExecvpToFclose ==
    First({"execvp"}, <<"filename", "argv">>, "parallel", <<Rd("filename")>>)
    \cup First({"execvpe"}, <<"filename", "argv", "envp">>, "parallel", <<Rd("filename")>>)
    \cup Quiet({"expf", "exp", "expl", "exp2f", "exp2", "exp2l", "expm1f", "expm1", "expm1l",
              "fabsf", "fabs", "fabsl", "fdimf", "fdim", "fdiml"})
    \cup Drops({"fclose"}, <<"stream">>)

HooksFdopenToFgetpos ==
    Checks({"fdopen"}, <<"mode">>, <<Rd("mode")>>)
    \cup Drops({"feof", "ferror", "fflush", "fgetc"}, <<"stream">>)
    \cup Checks({"fflush_unlocked", "fgetc_unlocked"}, <<"stream">>, <<Wr("stream")>>)
    \cup Result({"fgetpos"}, <<"stream", "pos">>, <<Wr("pos")>>)

\* Mutant: the hook of fgets pops the MAAP of stream before the one of str.
FgetsSwapsMAAPs ==
    {<<n, Entry(<<"str", "stream">>, <<"stream", "str">>, FALSE, "parallel",
              <<Wr("str")>>, "none")>> : n \in {"fgets", "fgets_unlocked"}}

HooksFgetsToFmod ==
    Checks({"fgets"}, <<"str", "stream">>, <<Wr("str")>>)
    \cup Checks({"fgets_unlocked"}, <<"str", "stream">>, <<Rd("stream"), Wr("str")>>)
    \cup Drops({"fileno"}, <<"stream">>)
    \cup Quiet({"floor", "floorf", "floorl", "fmaf", "fma", "fmal", "fmaxf", "fmax", "fmaxl",
              "fminf", "fmin", "fminl", "fmodf", "fmod"})

\* fputs pops the MAAP of str only.
HooksFmodToFputs ==
    Quiet({"fmodl", "fork"})
    \cup Checks({"fopen", "fopen64"}, <<"filename", "mode">>, <<Rd("filename"), Rd("mode")>>)
    \cup Formats({"fprintf"}, <<"stream", "format">>, <<"stream">>, "printf", <<>>)
    \cup Drops({"fputc"}, <<"stream">>)
    \cup Checks({"fputc_unlocked"}, <<"stream">>, <<Wr("stream")>>)
    \cup {<<"fputs", Entry(<<"str", "stream">>, <<"str">>, FALSE, "parallel", <<Rd("str")>>,
                         "none")>>}

HooksFreadToFrexp ==
    First({"fread"}, <<"buffer", "stream">>, "success", <<Wr("buffer")>>)
    \cup Result({"fread_unlocked"}, <<"buffer", "stream">>, <<Wr("buffer"), Wr("stream")>>)
    \cup Allocates({"free"}, <<"ptr">>, <<WrAny("free")>>)
    \cup Checks({"freopen"}, <<"filename", "mode", "stream">>, <<Rd("filename"), Rd("mode")>>)
    \cup Checks({"frexp", "frexpf", "frexpl"}, <<"exp">>, <<Wr("exp")>>)

HooksFscanfToFtell ==
    Formats({"fscanf"}, <<"stream", "format">>, <<"stream">>, "scanf", <<>>)
    \cup Drops({"fseek", "fseeko", "fseeko64", "ftell"}, <<"stream">>)
    \cup Result({"fsetpos"}, <<"stream", "pos">>, <<Rd("pos")>>)
    \cup Checks({"fstat", "fstat64"}, <<"buf">>, <<Wr("buf")>>)

HooksFtelloToGetchar ==
    Drops({"ftello", "ftello64", "getc"}, <<"stream">>)
    \cup Result({"fwrite"}, <<"buffer", "stream">>, <<Rd("buffer")>>)
    \cup Result({"fwrite_unlocked"}, <<"buffer", "stream">>, <<Rd("buffer"), Wr("stream")>>)
    \cup Checks({"getc_unlocked"}, <<"stream">>, <<Wr("stream")>>)
    \cup Quiet({"getchar"})
    \cup Checks({"getchar_unlocked"}, <<>>, <<RdAny("stdin")>>)

HooksGetenvToLog ==
    Checks({"getenv"}, <<"name">>, <<Rd("name")>>)
    \cup First({"gettimeofday"}, <<"tv", "tz">>, "parallel", <<Wr("tv"), Wr("tv")>>)
    \cup Quiet({"hypotf", "hypot", "hypotl", "isascii", "isdigit", "ldexpf", "ldexp", "ldexpl",
              "logf", "log", "logl", "log10f"})
    \cup Checks({"_IO_getc"}, <<"fp">>, <<Wr("fp")>>)

HooksLogToMemcmp ==
    Quiet({"log10", "log10l", "log2f", "log2", "log2l", "log1pf", "log1p", "log1pl", "memalign"})
    \cup Checks({"lstat"}, <<"path", "buf">>, <<Rd("path"), Wr("buf")>>)
    \cup Allocates({"malloc"}, <<>>, <<WrAny("alloc")>>)
    \cup Checks({"memchr"}, <<"ptr">>, <<Rd("ptr")>>)
    \cup Checks({"memcmp"}, <<"lhs", "rhs">>, <<Rd("lhs"), Rd("rhs")>>)

HooksMemcpyToMemset ==
    Checks({"memcpy", "__memcpy_chk", "memmove"}, <<"dst", "src">>, <<Rd("src"), Wr("dst")>>)
    \cup Checks({"memset", "__memset_chk"}, <<"dst">>, <<Wr("dst")>>)
    \cup Checks({"memset_pattern4", "memset_pattern8"}, <<"dst", "pattern">>,
                <<Rd("pattern"), Wr("dst")>>)

HooksMemsetToOpen ==
    Checks({"memset_pattern16"}, <<"dst", "pattern">>, <<Rd("pattern"), Wr("dst")>>)
    \cup Checks({"mkdir"}, <<"filename">>, <<Rd("filename")>>)
    \cup Checks({"mktime"}, <<"timeptr">>, <<Rd("timeptr")>>)
    \cup Checks({"modf", "modff", "modfl"}, <<"iptr">>, <<Wr("iptr")>>)
    \cup Quiet({"nearbyint", "nearbyintl", "nearbyintf", "ntohl", "ntohs"})
    \cup Checks({"open"}, <<"pathname">>, <<Rd("pathname")>>)

HooksOpenToPutc ==
    Checks({"open64"}, <<"pathname">>, <<Rd("pathname")>>)
    \cup Drops({"pclose", "putc"}, <<"stream">>)
    \cup Checks({"perror"}, <<"str">>, <<Rd("str")>>)
    \cup Checks({"popen"}, <<"command", "type">>, <<Rd("command"), Rd("type")>>)
    \cup Quiet({"powf", "pow", "powl"})
    \cup First({"pread"}, <<"buffer">>, "success", <<Wr("buffer")>>)
    \cup Formats({"printf"}, <<"format">>, <<>>, "printf", <<>>)

\* readlink and readlinkat check buf whatever the result is.
HooksPutcharToReadlink ==
    Quiet({"putchar"})
    \cup Checks({"putchar_unlocked"}, <<>>, <<WrAny("stdout")>>)
    \cup Checks({"puts"}, <<"str">>, <<Rd("str")>>)
    \cup Result({"pwrite"}, <<"buffer">>, <<Rd("buffer")>>)
    \cup Checks({"qsort"}, <<"ptr", "comp">>, <<Rd("comp"), Wr("ptr")>>)
    \cup Result({"read"}, <<"buf">>, <<Wr("buf")>>)
    \cup Checks({"readlink", "readlinkat"}, <<"pathname", "buf">>, <<Rd("pathname"), Wr("buf")>>)

HooksReallocToRename ==
    Allocates({"realloc"}, <<"ptr">>, <<WrAny("free"), WrAny("alloc")>>)
    \cup Checks({"realpath"}, <<"path", "resolved_path">>, <<Rd("path"), WrAny("result")>>)
    \cup Quiet({"remainderf", "remainder", "remainderl"})
    \cup Result({"remove"}, <<"filename">>, <<Rd("filename")>>)
    \cup Checks({"remquof", "remquo", "remquol"}, <<"quo">>, <<Wr("quo")>>)
    \cup Checks({"rename"}, <<"oldname", "newname">>, <<Rd("oldname"), Rd("newname")>>)

\* setbuf calls the hook of setvbuf with result 0.
HooksRewindToSinh ==
    Drops({"rewind"}, <<"stream">>)
    \cup Quiet({"rint", "rintf", "rintl", "round", "roundf", "roundl", "sinf", "sin", "sinl",
                "sinhf", "sinh"})
    \cup Checks({"rmdir"}, <<"path">>, <<Rd("path")>>)
    \cup Formats({"scanf"}, <<"format">>, <<>>, "scanf", <<>>)
    \cup Result({"setvbuf"}, <<"stream", "buf">>, <<Wr("buf")>>)
    \cup Checks({"setbuf"}, <<"stream", "buf">>, <<Wr("buf")>>)

HooksSinhToSprintf ==
    Quiet({"sinhl", "sqrtf", "sqrt", "sqrtl"})
    \cup Formats({"snprintf", "__snprintf_chk", "sprintf", "__sprintf_chk"},
               <<"str", "format">>, <<"str">>, "printf", <<Wr("str")>>)

\* sscanf runs the printf interpreter.
HooksSscanfToStpncpy ==
    Formats({"sscanf"}, <<"s", "format">>, <<"s">>, "printf", <<Rd("s")>>)
    \cup Checks({"stat"}, <<"path", "buf">>, <<Rd("path"), Wr("buf")>>)
    \cup Checks({"stpcpy", "__stpcpy_chk", "stpncpy", "__stpncpy_chk"}, <<"dest", "src">>,
              <<Rd("src"), Wr("dest")>>)

HooksStrcasecmpToStrcspn ==
    Checks({"strcasecmp"}, <<"str1", "str2">>, <<Rd("str1"), Rd("str2")>>)
    \cup Checks({"strcat", "__strcat_chk"}, <<"dest", "src">>, <<Rd("src"), Wr("dest")>>)
    \cup Checks({"strchr"}, <<"str">>, <<Rd("str")>>)
    \cup Checks({"strcspn"}, <<"str1", "str2">>, <<Rd("str2"), Rd("str1")>>)

HooksStrcmpToStrlcat ==
    Checks({"strcmp", "strcoll"}, <<"str1", "str2">>, <<Rd("str1"), Rd("str2")>>)
    \cup Checks({"strcpy", "__strcpy_chk", "strlcat"}, <<"dest", "src">>, <<Rd("src"), Wr("dest")>>)

HooksStrlcatToStrncasecmp ==
    Checks({"__strlcat_chk", "strlcpy", "__strlcpy_chk"}, <<"dest", "src">>, <<Rd("src"), Wr("dest")>>)
    \cup First({"strlen"}, <<"str">>, "parallel", <<Rd("str")>>)
    \cup Checks({"strncasecmp"}, <<"str1", "str2">>, <<Rd("str1"), Rd("str2")>>)

HooksStrncatToStrncpy ==
    Checks({"strncat", "__strncat_chk", "strncpy", "__strncpy_chk"}, <<"dest", "src">>,
           <<Rd("src"), Wr("dest")>>)
    \cup Checks({"strncmp"}, <<"str1", "str2">>, <<Rd("str1"), Rd("str2")>>)

HooksStrnlenToStrstr ==
    First({"strnlen"}, <<"str">>, "success", <<Rd("str")>>)
    \cup Checks({"strpbrk", "strspn"}, <<"str1", "str2">>, <<Rd("str2"), Rd("str1")>>)
    \cup Checks({"strrchr"}, <<"str">>, <<Rd("str")>>)
    \cup Checks({"strstr"}, <<"str1", "str2">>, <<Rd("str1"), Rd("str2")>>)

\* Mutant: the hooks of strtod forget the MAAP of endptr.
StrtodKeepsMAAP ==
    {<<n, Entry(<<"nptr", "endptr">>, <<"nptr">>, FALSE, "parallel",
              <<Rd("nptr"), WrAny("*endptr")>>, "none")>> : n \in {"strtof", "strtod", "strtold"}}

\* The MAAP of endptr is dropped; *endptr is checked without one.
HooksStrtod ==
    {<<n, Entry(<<"nptr", "endptr">>, <<"nptr", "_">>, FALSE, "parallel",
              <<Rd("nptr"), WrAny("*endptr")>>, "none")>> : n \in {"strtof", "strtod", "strtold"}}

\* generic_strtol returns before its checks when the base is valid: "success" is an invalid base.
HooksStrtol ==
    {<<n, Entry(<<"nptr", "endptr">>, <<"nptr", "_">>, FALSE, "success",
              <<Rd("nptr"), WrAny("*endptr")>>, "none")>>
        : n \in {"strtol", "strtoll", "strtoul", "strtoull"}}

HooksStrtok ==
    Checks({"strtok"}, <<"str", "delim">>,
           <<RdAny("__csan_strtok_str"), Rd("delim"), Rd("str"), Wr("str"),
              WrAny("__csan_strtok_str")>>)
    \cup Checks({"strtok_r", "__strtok_r"}, <<"str", "delim", "saveptr">>,
              <<Rd("saveptr"), Rd("delim"), Rd("str"), Wr("str"), Wr("saveptr")>>)

\* strxfrm checks a write of its source, where the library function writes str1.
HooksStrxfrmToTan ==
    Checks({"strxfrm"}, <<"str1", "str2">>, <<Rd("str2"), Wr("str2")>>)
    \cup Checks({"system"}, <<"command">>, <<Rd("command")>>)
    \cup Quiet({"tanf", "tan"})

HooksTanToUtime ==
    Quiet({"tanl", "tanhf", "tanh", "tanhl", "toascii", "trunc", "truncf", "truncl"})
    \cup Drops({"ungetc"}, <<"stream">>)
    \cup Checks({"unlink", "unlinkat"}, <<"pathname">>, <<Rd("pathname")>>)
    \cup Checks({"unsetenv"}, <<"name">>, <<Rd("name")>>)
    \cup Result({"utime"}, <<"filename", "times">>, <<Rd("filename"), Rd("times")>>)

HooksUtimesToVsnprintf ==
    Result({"utimes"}, <<"filename", "times">>, <<Rd("filename"), Rd("times")>>)
    \cup Formats({"vfprintf"}, <<"stream", "format">>, <<"stream">>, "printf", <<>>)
    \cup Formats({"vfscanf"}, <<"stream", "format">>, <<"stream">>, "scanf", <<>>)
    \cup Formats({"vprintf"}, <<"format">>, <<>>, "printf", <<>>)
    \cup Formats({"vsnprintf", "__vsnprintf_chk"}, <<"buf", "format">>, <<"buf">>, "printf", <<Wr("buf")>>)

HooksVsprintfToWrite ==
    Formats({"vsprintf", "__vsprintf_chk"}, <<"buf", "format">>, <<"buf">>, "printf", <<Wr("buf")>>)
    \cup Formats({"vscanf"}, <<"format">>, <<>>, "scanf", <<>>)
    \cup Formats({"vsscanf"}, <<"s", "format">>, <<"s">>, "scanf", <<Rd("s")>>)
    \cup First({"wcslen"}, <<"str">>, "parallel", <<Rd("str")>>)
    \cup Result({"write"}, <<"buf">>, <<Rd("buf")>>)

\* A function without a hook of its own: __csan_default_libhook pops its MAAPs and warns.
DefaultHook == Drops({"default_libhook"}, <<"p", "q">>)

HookEntries ==
    DefaultHook \cup MaskedIntrinsics \cup GatherIntrinsics \cup X86Intrinsics
    \cup NeonLoadIntrinsics \cup NeonStoreIntrinsics \cup StackIntrinsics
    \cup HooksAtexitToAsin \cup HooksAsinToAtol \cup HooksBcmpToCos \cup HooksCoshToExecve
    \cup HooksExecvpToFclose \cup HooksFdopenToFgetpos \cup HooksFgetsToFmod
    \cup HooksFmodToFputs \cup HooksFreadToFrexp \cup HooksFscanfToFtell
    \cup HooksFtelloToGetchar \cup HooksGetenvToLog \cup HooksLogToMemcmp
    \cup HooksMemcpyToMemset \cup HooksMemsetToOpen \cup HooksOpenToPutc
    \cup HooksPutcharToReadlink \cup HooksReallocToRename \cup HooksRewindToSinh
    \cup HooksSinhToSprintf \cup HooksSscanfToStpncpy \cup HooksStrcasecmpToStrcspn
    \cup HooksStrcmpToStrlcat \cup HooksStrlcatToStrncasecmp \cup HooksStrncatToStrncpy
    \cup HooksStrnlenToStrstr \cup HooksStrtod \cup HooksStrtol \cup HooksStrtok
    \cup HooksStrxfrmToTan \cup HooksTanToUtime \cup HooksUtimesToVsnprintf
    \cup HooksVsprintfToWrite

HookTable ==
    [n \in {h[1] : h \in HookEntries} |-> (CHOOSE h \in HookEntries : h[1] = n)[2]]
=============================================================================
