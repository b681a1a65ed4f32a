------------------------------ MODULE JniCalls ------------------------------
(***************************************************************************)
(* The functions of the JNIEnv table and of the JavaVM table, in the words *)
(* of HostCalls.  Functions that differ only in the type of a value are    *)
(* one here.  Where a function fails it leaves a Java exception pending    *)
(* and answers null: that is the errno it is denied with.                  *)
(*                                                                         *)
(* Java code runs in the host: models in Python, and the handler of the    *)
(* user.  What they do to Java objects is the part "java"; JniRefs has     *)
(* what becomes of the references.                                         *)
(***************************************************************************)
EXTENDS HostCalls

Throws(class) == Denied(class)

(* The functions 4 to 143, by their place in the table.  The functions that  *)
(* call methods come in threes, by the way their arguments are passed.       *)
CallModes(first, last) ==
    [n \in first .. last |-> <<"CallMethod", "CallMethodV", "CallMethodA">>[((n - first) % 3) + 1]]
Same(first, last, name) == [n \in first .. last |-> name]

Table4To143 ==
    From(4, <<"GetVersion", "DefineClass", "FindClass", "FromReflectedMethod", "FromReflectedField",
        "ToReflectedMethod", "GetSuperclass", "IsAssignableFrom", "ToReflectedField", "Throw",
        "ThrowNew", "ExceptionOccurred", "ExceptionDescribe", "ExceptionClear", "FatalError",
        "PushLocalFrame", "PopLocalFrame", "NewGlobalRef", "DeleteGlobalRef", "DeleteLocalRef",
        "IsSameObject", "NewLocalRef", "EnsureLocalCapacity", "AllocObject", "NewObject",
        "NewObjectV", "NewObjectA", "GetObjectClass", "IsInstanceOf", "GetMethodID">>) @@
    CallModes(34, 93) @@
    From(94, <<"GetFieldID">>) @@ Same(95, 103, "GetField") @@ Same(104, 112, "SetField") @@
    From(113, <<"GetMethodID">>) @@ CallModes(114, 143)

(* The functions from 144 on.                                                *)
Table144To235 ==
    From(144, <<"GetFieldID">>) @@ Same(145, 153, "GetField") @@ Same(154, 162, "SetField") @@
    From(163, <<"NewString", "GetStringLength", "GetStringChars", "ReleaseStringChars",
        "NewStringUTF", "GetStringUTFLength", "GetStringUTFChars", "ReleaseStringUTFChars",
        "GetArrayLength", "NewObjectArray", "GetObjectArrayElement", "SetObjectArrayElement">>) @@
    Same(175, 182, "NewArray") @@ Same(183, 190, "GetArrayElements") @@
    Same(191, 198, "ReleaseArrayElements") @@ Same(199, 206, "GetArrayRegion") @@
    Same(207, 214, "SetArrayRegion") @@
    From(215, <<"RegisterNatives", "UnregisterNatives", "MonitorEnter", "MonitorExit", "GetJavaVM",
        "GetStringRegion", "GetStringUTFRegion", "GetPrimitiveArrayCritical",
        "ReleasePrimitiveArrayCritical", "GetStringCritical", "ReleaseStringCritical",
        "NewWeakGlobalRef", "DeleteWeakGlobalRef", "ExceptionCheck", "NewDirectByteBuffer",
        "GetDirectBufferAddress", "GetDirectBufferCapacity", "GetObjectRefType", "GetModule",
        "IsVirtualThread", "GetStringUTFLengthAsLong">>)

(* _call: an id that is none does nothing.  A native method is dispatched:   *)
(* its receiver and arguments get local references, then the guest goes on   *)
(* in it.  Any other runs in the host; a Java exception that it throws stays *)
(* pending, any other exception is raised.                                   *)
Calling(args) ==
    {<<>>,
     <<args, Risks("references"), Given(Write("stack")), Does("native_calls"), Does("registers")>>,
     <<args, Risks("java"), Given(Does("references"))>>,
     <<args, Risks("java"), Crash("TypeError")>>,
     <<args, Risks("java"), Fails("JavaException")>>}

(* Arguments on the stack, behind a va_list, in an array of jvalue.          *)
OnStack == Given(Read("stack"))
Listed  == Read("va_list")
InArray == Given(Read("jvalues"))

(* _new_instance: what a constructor throws is raised.                       *)
Constructing(args) ==
    {<<Throws("NullPointerException"), Throws("NoSuchMethodError"), args,
       Risks("java"), Given(Does("references"))>>}

(* Fields: an id that is none does nothing.  artMethod is kept by the DVM.   *)
GettingField ==
    {<<>>, <<Risks("art_methods")>>, <<Risks("java"), Given(Does("references"))>>}
SettingField == {<<>>, <<OnStack, Risks("java")>>}

NewPrimitiveArray == {<<Throws("NegativeArraySizeException"), Does("references")>>}

(* The elements of an array, copied to a block of the heap and back.         *)
Elements ==
    {<<Throws("NullPointerException"), Asks("heap"), Write("block"), Does("buffers"),
       Given(Write("isCopy"))>>}
ReleaseElements ==
    {<<>>, <<Read("block"), Does("java")>>,
     <<Given(Read("block")), Given(Does("java")), Does("buffers"), Demands("ValueError"), Does("heap")>>}
GetRegion ==
    {<<Throws("NullPointerException"), Throws("ArrayIndexOutOfBoundsException"), Write("buf")>>}

(* Fault: the elements are set before the bounds are checked.                *)
SetRegionFirst ==
    {<<Throws("NullPointerException"), Read("buf"), Does("java"),
       Throws("ArrayIndexOutOfBoundsException")>>}
SetRegion ==
    {<<Throws("NullPointerException"), Throws("ArrayIndexOutOfBoundsException"), Read("buf"),
       Does("java")>>}

Classes ==
    [GetVersion |-> {<<>>},
     DefineClass |-> {<<Crash("NotImplementedError")>>},
     FindClass |-> {<<Given(Read("name")), Throws("NoClassDefFoundError"), Does("references")>>}] @@
    Each({"ToReflectedMethod", "ToReflectedField", "GetSuperclass"}, {<<>>, <<Does("references")>>}) @@
    Each({"FromReflectedMethod", "FromReflectedField", "IsAssignableFrom"}, {<<>>})

Exceptions ==
    [Throw |-> {<<Does("pending")>>},
     ThrowNew |-> {<<Given(Read("message")), Does("pending")>>},
     ExceptionOccurred |-> {<<>>, <<Does("references")>>},
     ExceptionDescribe |-> {<<>>, <<Does("pending")>>},
     ExceptionClear |-> {<<Does("pending")>>},
     FatalError |-> {<<Given(Read("message")), Crash("EmulatorCrashed")>>}]

References ==
    [PushLocalFrame |-> {<<Does("local_frames")>>},
     PopLocalFrame |-> {<<>>, <<Does("local_frames"), Does("references")>>},
     GetObjectClass |-> {<<Throws("NullPointerException"), Does("references")>>}] @@
    Each({"DeleteGlobalRef", "DeleteLocalRef"}, {<<Does("references")>>}) @@
    Each({"NewGlobalRef", "NewLocalRef", "AllocObject"}, {<<>>, <<Does("references")>>}) @@
    Each({"IsSameObject", "EnsureLocalCapacity", "IsInstanceOf"}, {<<>>}) @@
    [NewObject |-> Constructing(OnStack),
     NewObjectV |-> Constructing(Listed),
     NewObjectA |-> Constructing(InArray)]

(* A method or field gets its id when it is first asked for.                 *)
MethodID == {<<Given(Read("name")), Given(Read("sig")), Given(Does("members"))>>}
FieldID  == {<<Given(Read("name")), Given(Read("sig")), Given(Does("members"))>>}

(* The functions for each type: of virtual, nonvirtual and static methods,   *)
(* of fields and of static fields.                                           *)
VirtualCalls    == [CallMethod |-> Calling(OnStack), CallMethodV |-> Calling(Listed),
                    CallMethodA |-> Calling(InArray)]
NonvirtualCalls == VirtualCalls
StaticCalls     == VirtualCalls
Fields          == [GetFieldID |-> FieldID, GetField |-> GettingField, SetField |-> SettingField]
StaticFields    == Fields

(* Strings.  A copy of one is a block of the heap until it is released.      *)
Chars == {<<Asks("heap"), Write("block"), Does("buffers"), Given(Write("isCopy"))>>}
ReleaseChars == {<<>>, <<Does("buffers"), Demands("ValueError"), Does("heap")>>}

Strings ==
    [NewString |-> {<<Throws("IllegalArgumentException"), Given(Read("chars")), Does("references")>>},
     NewStringUTF |-> {<<Given(Read("bytes")), Throws("IllegalArgumentException"), Does("references")>>}] @@
    Each({"GetStringLength", "GetStringUTFLength", "GetStringUTFLengthAsLong"}, {<<>>}) @@
    Each({"GetStringChars", "GetStringUTFChars", "GetStringCritical"}, Chars) @@
    Each({"ReleaseStringChars", "ReleaseStringUTFChars", "ReleaseStringCritical"}, ReleaseChars)

Arrays ==
    [GetArrayLength |-> {<<Throws("NullPointerException"), Throws("IllegalArgumentException")>>},
     NewObjectArray |-> {<<Throws("NegativeArraySizeException"), Does("references")>>},
     GetObjectArrayElement |-> {<<Throws("ArrayIndexOutOfBoundsException"), Given(Does("references"))>>},
     SetObjectArrayElement |-> {<<Throws("ArrayIndexOutOfBoundsException"), Does("java")>>},
     NewArray |-> NewPrimitiveArray]

ArrayElements ==
    Each({"GetArrayElements", "GetPrimitiveArrayCritical"}, Elements) @@
    Each({"ReleaseArrayElements", "ReleasePrimitiveArrayCritical"}, ReleaseElements) @@
    [GetArrayRegion |-> GetRegion, SetArrayRegion |-> SetRegion]

(* RegisterNatives registers as it reads; the methods before a bad one stay. *)
Natives ==
    [RegisterNatives |-> {<<Denied("JNI_ERR")>>,
                          <<Denied("JNI_ERR"), Read("method"), Does("natives"), Given(Read("next"))>>},
     UnregisterNatives |-> {<<Denied("JNI_ERR"), Does("natives")>>},
     GetJavaVM |-> {<<Write("vm")>>}] @@
    Each({"MonitorEnter", "MonitorExit"}, {<<>>}) @@
    Each({"GetStringRegion", "GetStringUTFRegion"},
        {<<Throws("StringIndexOutOfBoundsException"), Write("buf")>>})

WeakAndDirect ==
    [NewWeakGlobalRef |-> {<<>>, <<Does("references")>>},
     DeleteWeakGlobalRef |-> {<<Does("references")>>},
     NewDirectByteBuffer |-> {<<Does("references")>>},
     GetModule |-> {<<Crash("NotImplementedError")>>}] @@
    Each({"ExceptionCheck", "GetDirectBufferAddress", "GetDirectBufferCapacity", "GetObjectRefType",
          "IsVirtualThread"}, {<<>>})

(* The five functions of the JavaVM.                                         *)
Invocation ==
    Each({"DestroyJavaVM", "DetachCurrentThread"}, {<<>>}) @@
    Each({"AttachCurrentThread", "GetEnv", "AttachCurrentThreadAsDaemon"}, {<<Write("env")>>})

JavaVMTable ==
    From(3, <<"DestroyJavaVM", "AttachCurrentThread", "DetachCurrentThread", "GetEnv",
              "AttachCurrentThreadAsDaemon">>)

Table == Table4To143 @@ Table144To235

Functions ==
    Classes @@ Exceptions @@ References @@ VirtualCalls @@ NonvirtualCalls @@ StaticCalls @@
    Fields @@ StaticFields @@ [GetMethodID |-> MethodID] @@ Strings @@ Arrays @@ ArrayElements @@
    Natives @@ WeakAndDirect @@ Invocation
=============================================================================
